---- MODULE Spec2Model ----
(***************************************************************************)
(* Pathfinder Lab: the Grid/Node model, maze and weight generation, saving *)
(* to and loading from localStorage, Dijkstra and A* search sessions paced *)
(* by animation timers, and the findPath()/stop() protocol.                *)
(*                                                                         *)
(* Granularity: one action is one browser task.  A call of findPath() or   *)
(* stop(), or the expiry of one setTimeout of delay(), runs to the next    *)
(* `await this.delay(...)` (or to the end of findPath) without another     *)
(* task in between; awaits of already-settled promises are microtasks and  *)
(* belong to the task that is running.                                     *)
(***************************************************************************)
EXTENDS Integers, Sequences, FiniteSets, TLC

VARIABLES grid, alg, sessions, storage

vars == <<grid, alg, sessions, storage>>

(***************************************************************************)
(* Bounds of the model.                                                    *)
(***************************************************************************)
MaxRows == 2         \* rows of a grid
MaxCols == 3         \* columns of a grid
MaxCells == 6        \* cells of a grid
MaxWalls == 2        \* wall cells of a layout
MaxHeavy == 3        \* cells of weight above 1 of a layout
MaxEditHeavy == 1    \* cells the weight tool may have made heavy (SpecGrid)
MaxSessions == 2     \* findPath calls that start a session (SpecStop)
MaxWideWalls == 1    \* wall cells of a layout of SpecWide
MaxStopWalls == 2    \* wall cells of a layout of SpecStop
MaxStoreWalls == 1   \* wall cells of a layout of SpecStore
MaxStoreHeavy == 1   \* cells of weight above 1 of a layout of SpecStore

\* Grid sizes explored: at least 2x2 (index.html / part_000:383), within the bounds.
Shapes == { s \in (2..MaxRows) \X (2..MaxCols) : s[1] * s[2] <= MaxCells }

(***************************************************************************)
(* Node (src/unnamed/part_000, class Node).  hScore is written by the      *)
(* constructor and reset() only and never read; element is the DOM.        *)
(***************************************************************************)
Infinity == 9999

\* the options of #weight-selector
Weights == {1, 2, 5, 10}

\* null, for previousNode (nodes of a matrix are named by their <<row, col>>)
NoNode == <<>>

\* null, for Grid.startNode / Grid.endNode
NoRef == [row |-> -1, col |-> -1, live |-> FALSE]

\* a reference to the node at (row, col) of the current matrix
Ref(row, col) == [row |-> row, col |-> col, live |-> TRUE]

NewNode ==
    [isStart |-> FALSE, isEnd |-> FALSE, isWall |-> FALSE, weight |-> 1,
     isExplored |-> FALSE, isPath |-> FALSE, distance |-> Infinity,
     previousNode |-> NoNode, gScore |-> Infinity, fScore |-> Infinity]

\* a reset that leaves distance, gScore and fScore as the last search set them
resetKeepsDistance(n) ==
    [n EXCEPT !.isExplored = FALSE, !.isPath = FALSE, !.previousNode = NoNode]

\* a reset that also takes the wall down
resetOpensWall(n) ==
    [n EXCEPT !.isExplored = FALSE, !.isPath = FALSE, !.distance = Infinity,
              !.previousNode = NoNode, !.gScore = Infinity, !.fScore = Infinity,
              !.isWall = FALSE]

reset(n) ==
    [n EXCEPT !.isExplored = FALSE, !.isPath = FALSE, !.distance = Infinity,
              !.previousNode = NoNode, !.gScore = Infinity, !.fScore = Infinity]

resetCompletely(n) ==
    reset([n EXCEPT !.isStart = FALSE, !.isEnd = FALSE, !.isWall = FALSE, !.weight = 1])

setAsStart(n) == [n EXCEPT !.isStart = TRUE, !.isEnd = FALSE, !.isWall = FALSE]

setAsEnd(n) == [n EXCEPT !.isEnd = TRUE, !.isStart = FALSE, !.isWall = FALSE]

\* a setAsWall without the test for Start and End
setAsWallAnywhere(n) == [n EXCEPT !.isWall = TRUE, !.weight = 1]

setAsWall(n) ==
    IF ~n.isStart /\ ~n.isEnd THEN [n EXCEPT !.isWall = TRUE, !.weight = 1] ELSE n

setWeight(n, weight) ==
    IF ~n.isStart /\ ~n.isEnd /\ ~n.isWall THEN [n EXCEPT !.weight = weight] ELSE n

clear(n) ==
    IF ~n.isStart /\ ~n.isEnd
    THEN [n EXCEPT !.isWall = FALSE, !.weight = 1, !.isExplored = FALSE, !.isPath = FALSE]
    ELSE n

markAsExplored(n) == [n EXCEPT !.isExplored = TRUE]

markAsPath(n) == [n EXCEPT !.isPath = TRUE]

\* a getMovementCost that ignores the weight: every step costs 1
getMovementCostUnit(n) == 1

getMovementCost(n) == n.weight

Abs(x) == IF x < 0 THEN -x ELSE x

\* Node.manhattanDistanceTo, on positions
manhattanDistanceTo(p, q) == Abs(p[1] - q[1]) + Abs(p[2] - q[2])

(***************************************************************************)
(* Grid (src/unnamed/part_000, class Grid).  A grid value is               *)
(* [rows, cols, nodes, startNode, endNode]; nodes maps <<row, col>> to the *)
(* Node of the current matrix.  A reference whose live flag is FALSE is a  *)
(* Node object of a matrix that initializeGrid has since replaced.         *)
(***************************************************************************)
Positions(rows, cols) == (0 .. rows - 1) \X (0 .. cols - 1)

Pos(G) == Positions(G.rows, G.cols)

RefPos(ref) == <<ref.row, ref.col>>

\* `this.endNode && this.endNode.row === row && this.endNode.col === col`
RefIsAt(ref, row, col) == ref # NoRef /\ ref.row = row /\ ref.col = col

\* a setStartNode without the guard on End's position
setStartNodeUnguarded(G, row, col) ==
    LET p  == <<row, col>>
        n1 == [G.nodes EXCEPT ![p].isWall = FALSE, ![p].weight = 1]
        n2 == IF G.startNode # NoRef /\ G.startNode.live
              THEN [n1 EXCEPT ![RefPos(G.startNode)].isStart = FALSE]
              ELSE n1
        n3 == [n2 EXCEPT ![p] = setAsStart(n2[p])]
    IN  [G EXCEPT !.nodes = n3, !.startNode = Ref(row, col)]

\* a setEndNode that leaves the previous End cell flagged
setEndNodeKeepsOld(G, row, col) ==
    IF RefIsAt(G.startNode, row, col) THEN G
    ELSE LET p  == <<row, col>>
             n1 == [G.nodes EXCEPT ![p].isWall = FALSE, ![p].weight = 1]
             n3 == [n1 EXCEPT ![p] = setAsEnd(n1[p])]
         IN  [G EXCEPT !.nodes = n3, !.endNode = Ref(row, col)]

setStartNode(G, row, col) ==
    IF RefIsAt(G.endNode, row, col) THEN G
    ELSE LET p  == <<row, col>>
             n1 == [G.nodes EXCEPT ![p].isWall = FALSE, ![p].weight = 1]
             n2 == IF G.startNode # NoRef /\ G.startNode.live
                   THEN [n1 EXCEPT ![RefPos(G.startNode)].isStart = FALSE]
                   ELSE n1
             n3 == [n2 EXCEPT ![p] = setAsStart(n2[p])]
         IN  [G EXCEPT !.nodes = n3, !.startNode = Ref(row, col)]

setEndNode(G, row, col) ==
    IF RefIsAt(G.startNode, row, col) THEN G
    ELSE LET p  == <<row, col>>
             n1 == [G.nodes EXCEPT ![p].isWall = FALSE, ![p].weight = 1]
             n2 == IF G.endNode # NoRef /\ G.endNode.live
                   THEN [n1 EXCEPT ![RefPos(G.endNode)].isEnd = FALSE]
                   ELSE n1
             n3 == [n2 EXCEPT ![p] = setAsEnd(n2[p])]
         IN  [G EXCEPT !.nodes = n3, !.endNode = Ref(row, col)]

\* The old matrix is dropped: references kept in startNode/endNode go stale.
Stale(ref) == IF ref = NoRef THEN NoRef ELSE [ref EXCEPT !.live = FALSE]

initializeGrid(G) ==
    LET fresh == [G EXCEPT !.nodes = [p \in Positions(G.rows, G.cols) |-> NewNode],
                           !.startNode = Stale(G.startNode),
                           !.endNode = Stale(G.endNode)]
    IN  setEndNode(setStartNode(fresh, 0, 0), G.rows - 1, G.cols - 1)

\* new Grid(rows, cols, containerId)
NewGrid(rows, cols) ==
    initializeGrid([rows |-> rows, cols |-> cols, nodes |-> <<>>,
                    startNode |-> NoRef, endNode |-> NoRef])

\* a resetAlgorithmStates that leaves the path marks
resetAlgorithmStatesKeepsPath(G) ==
    [G EXCEPT !.nodes = [p \in Pos(G) |-> [reset(G.nodes[p]) EXCEPT !.isPath = G.nodes[p].isPath]]]

resetAlgorithmStates(G) == [G EXCEPT !.nodes = [p \in Pos(G) |-> reset(G.nodes[p])]]

clearGrid(G) ==
    LET wiped == [G EXCEPT !.nodes = [p \in Pos(G) |-> resetCompletely(G.nodes[p])]]
    IN  setEndNode(setStartNode(wiped, 0, 0), G.rows - 1, G.cols - 1)

resize(G, newRows, newCols) == initializeGrid([G EXCEPT !.rows = newRows, !.cols = newCols])

\* randomizeStartAndEnd, with (sr, sc) and (er, ec) the positions its two
\* do-while loops end on.
randomizeStartAndEnd(G, sr, sc, er, ec) == setEndNode(setStartNode(G, sr, sc), er, ec)

\* The positions the first loop can end on: a non-wall cell, or, once tries
\* reaches maxTries, the wall cell drawn last.
StartDraws(G) == Pos(G)

\* The positions the second loop can end on: a non-wall cell other than the
\* drawn start, or, once tries reaches maxTries, whatever was drawn last.
EndDraws(G, sr, sc) == Pos(G)

\* getNeighbors: up, down, left, right, those within bounds
Directions == << <<-1, 0>>, <<1, 0>>, <<0, -1>>, <<0, 1>> >>

InBounds(G, p) == p[1] >= 0 /\ p[1] < G.rows /\ p[2] >= 0 /\ p[2] < G.cols

\* a getNeighbors that leaves out left and right
getNeighborsUpDown(G, p) ==
    LET cand == [i \in 1 .. 2 |-> <<p[1] + Directions[i][1], p[2] + Directions[i][2]>>]
    IN  SelectSeq(cand, LAMBDA q : InBounds(G, q))

\* a getNeighbors that looks left and right before up and down
getNeighborsLeftFirst(G, p) ==
    LET cand == [i \in 1 .. 4 |-> <<p[1] + Directions[5 - i][1], p[2] + Directions[5 - i][2]>>]
    IN  SelectSeq(cand, LAMBDA q : InBounds(G, q))

getNeighbors(G, p) ==
    LET cand == [i \in 1 .. 4 |-> <<p[1] + Directions[i][1], p[2] + Directions[i][2]>>]
    IN  SelectSeq(cand, LAMBDA q : InBounds(G, q))

\* getAllNodes: row-major
RECURSIVE RowMajor(_, _, _)
RowMajor(G, row, col) ==
    IF row >= G.rows THEN <<>>
    ELSE IF col >= G.cols THEN RowMajor(G, row + 1, 0)
    ELSE <<(<<row, col>>)>> \o RowMajor(G, row, col + 1)

getAllNodes(G) == RowMajor(G, 0, 0)

(***************************************************************************)
(* Views of a grid used by the properties.                                 *)
(***************************************************************************)
StartCells(G) == { p \in Pos(G) : G.nodes[p].isStart }
EndCells(G) == { p \in Pos(G) : G.nodes[p].isEnd }
WallCells(G) == { p \in Pos(G) : G.nodes[p].isWall }
HeavyCells(G) == { p \in Pos(G) : G.nodes[p].weight > 1 }

AlgIds == {"dijkstra", "astar"}

(***************************************************************************)
(* Maze generation (Grid.generateRandomMaze, _recursiveDivision,           *)
(* _ensureRandomPathExists).  Every Math.random() draw is a choice: an     *)
(* operator returns the set of results, one per sequence of draws.         *)
(***************************************************************************)
\* the cells of one wall line, the passage left out
WallLine(wy, wx, px, py, length, horizontal) ==
    { q \in { IF horizontal THEN <<wy, wx + i>> ELSE <<wy + i, wx>> : i \in 0 .. length - 1 } :
        q # <<py, px>> }

\* _recursiveDivision on the region (row, col, height, width): the sets of
\* cells it visits with the wall test, one set per sequence of draws of the
\* wall line (wx, wy) and of the passage (px, py), its two sub-calls included
RECURSIVE recursiveDivision(_, _, _, _, _)
recursiveDivision(row, col, height, width, horizontal) ==
    IF height < 3 \/ width < 3 THEN {{}}
    ELSE IF horizontal
    THEN UNION { UNION { { WallLine(wy, col, px, wy, width, TRUE) \cup a \cup b :
                             a \in recursiveDivision(row, col, wy - row + 1, width, FALSE),
                             b \in recursiveDivision(wy + 1, col, row + height - (wy + 1),
                                                     width, FALSE) } :
                         px \in col .. col + width - 1 } :
                 wy \in row .. row + height - 3 }
    ELSE UNION { UNION { { WallLine(row, wx, wx, py, height, FALSE) \cup a \cup b :
                             a \in recursiveDivision(row, col, height, wx - col + 1, TRUE),
                             b \in recursiveDivision(row, wx + 1, height,
                                                     col + width - (wx + 1), TRUE) } :
                         py \in row .. row + height - 1 } :
                 wx \in col .. col + width - 3 }

\* the first loop of generateRandomMaze: clear() on every cell that is
\* neither Start nor End
clearCells(G) ==
    [G EXCEPT !.nodes = [p \in Pos(G) |->
        IF ~G.nodes[p].isStart /\ ~G.nodes[p].isEnd THEN clear(G.nodes[p]) ELSE G.nodes[p]]]

\* a wall loop that walls the Start and End cells like any other
buildWallsOverRoles(G, W) ==
    [G EXCEPT !.nodes = [p \in Pos(G) |->
        IF p \in W /\ InBounds(G, p)
        THEN [G.nodes[p] EXCEPT !.isWall = TRUE, !.weight = 1] ELSE G.nodes[p]]]

\* the wall loop of _recursiveDivision over the visited cells W: a wall on
\* every valid position that is neither Start nor End
buildWalls(G, W) ==
    [G EXCEPT !.nodes = [p \in Pos(G) |->
        IF p \in W /\ InBounds(G, p) /\ ~G.nodes[p].isStart /\ ~G.nodes[p].isEnd
        THEN setAsWall(G.nodes[p]) ELSE G.nodes[p]]]

\* the breadth-first loop of _ensureRandomPathExists: the cells it visits
RECURSIVE bfsVisited(_, _)
bfsVisited(G, visited) ==
    LET more == { q \in Pos(G) :
                    /\ q \notin visited
                    /\ ~G.nodes[q].isWall
                    /\ \E p \in visited : \E i \in 1 .. Len(getNeighbors(G, p)) :
                          getNeighbors(G, p)[i] = q }
    IN  IF more = {} THEN visited ELSE bfsVisited(G, visited \cup more)

\* `found`: the loop dequeued endNode, a node of the current matrix
pathFound(G) ==
    G.endNode.live /\ RefPos(G.endNode) \in bfsVisited(G, {RefPos(G.startNode)})

\* the `options` one iteration of the random walk can draw from at p, e being
\* End's position: the moves towards End and, each with probability 1/2,
\* the moves that stay inside the grid
walkOptions(G, p, e) ==
    { q \in { <<p[1] + 1, p[2]>>, <<p[1] - 1, p[2]>>, <<p[1], p[2] + 1>>, <<p[1], p[2] - 1>> } :
        \/ q[1] = p[1] + 1 /\ (p[1] < e[1] \/ p[1] < G.rows - 1)
        \/ q[1] = p[1] - 1 /\ (p[1] > e[1] \/ p[1] > 0)
        \/ q[2] = p[2] + 1 /\ (p[2] < e[2] \/ p[2] < G.cols - 1)
        \/ q[2] = p[2] - 1 /\ (p[2] > e[2] \/ p[2] > 0) }

\* path.push([r, c]) on a walk t = <<(r, c), cells, whole>>: cells are the
\* cells of `path` the carving loop gets to, whole says that every position
\* pushed so far is one of the matrix (at the first that is not, reading
\* this.nodes[row][col].isStart throws and the carving loop ends)
pathPush(G, t, q) ==
    IF t[3] /\ InBounds(G, q) THEN <<q, t[2] \cup {q}, TRUE>> ELSE <<q, t[2], FALSE>>

\* the while loop of the random walk.  F holds the walks still running,
\* done the cells of the walks that reached End, left the iterations
\* remaining before steps = maxSteps.
RECURSIVE walkLoop(_, _, _, _, _)
walkLoop(G, F, done, e, left) ==
    IF left = 0 \/ F = {} THEN done \cup { t[2] : t \in F }
    ELSE walkLoop(G,
                  UNION { { pathPush(G, t, q) : q \in walkOptions(G, t[1], e) } :
                          t \in { u \in F : u[1] # e } },
                  done \cup { t[2] : t \in { u \in F : u[1] = e } },
                  e, left - 1)

\* the cell sets the carving loop can be given by the random walk from
\* startNode's position to endNode's
randomWalk(G) ==
    walkLoop(G, { pathPush(G, <<RefPos(G.startNode), {}, TRUE>>, RefPos(G.startNode)) }, {},
             RefPos(G.endNode), G.rows * G.cols * 2)

\* a carving loop that walls the cells of the path instead
carvePlacesWalls(G, path) ==
    [G EXCEPT !.nodes = [p \in Pos(G) |->
        IF p \in path /\ ~G.nodes[p].isStart /\ ~G.nodes[p].isEnd
        THEN [G.nodes[p] EXCEPT !.isWall = TRUE] ELSE G.nodes[p]]]

\* the carving loop: the wall flag dropped on every path cell that is
\* neither Start nor End
carve(G, path) ==
    [G EXCEPT !.nodes = [p \in Pos(G) |->
        IF p \in path /\ ~G.nodes[p].isStart /\ ~G.nodes[p].isEnd
        THEN [G.nodes[p] EXCEPT !.isWall = FALSE] ELSE G.nodes[p]]]

\* _ensureRandomPathExists, walks being the paths the random walk can give
ensureRandomPathExists(G, walks) ==
    IF pathFound(G) THEN {G} ELSE { carve(G, path) : path \in walks }

\* generateRandomMaze: the grids it can leave
generateRandomMaze(G) ==
    LET walks == randomWalk(G)
    IN  UNION { ensureRandomPathExists(buildWalls(clearCells(G), W), walks) :
                W \in recursiveDivision(0, 0, G.rows, G.cols, TRUE) }

\* generateRandomWeights(minWeight, maxWeight, fillProbability), draw giving
\* the weight drawn for each cell: one of allowedWeights, or 1 where
\* Math.random() was not below fillProbability
generateRandomWeights(G, draw) ==
    [G EXCEPT !.nodes = [p \in Pos(G) |->
        IF ~G.nodes[p].isWall /\ ~G.nodes[p].isStart /\ ~G.nodes[p].isEnd
        THEN setWeight(G.nodes[p], draw[p]) ELSE G.nodes[p]]]

(***************************************************************************)
(* Persistence (Node.serialize / deserialize, Grid.serialize /             *)
(* deserialize, StorageManager.saveGrid / loadGrid).  storage is the entry *)
(* allGrids[name] of localStorage for one name, as getAllGridsRaw returns  *)
(* it: JSON.stringify followed by JSON.parse gives back the booleans and   *)
(* integers of a record unchanged and drops nothing but undefined fields,  *)
(* which a record of the model simply does not have.  A record is          *)
(* [rows, cols, nodes], nodes mapping <<row, col>> to the node data at     *)
(* data.nodes[row][col]; a position outside its domain is a missing row or *)
(* a missing cell.                                                         *)
(***************************************************************************)
\* allGrids[name] is undefined
NoEntry == [saved |-> FALSE]

\* Node.serialize
serializeNode(n, row, col) ==
    [row |-> row, col |-> col, isStart |-> n.isStart, isEnd |-> n.isEnd,
     isWall |-> n.isWall, weight |-> n.weight]

\* Grid.serialize
serialize(G) ==
    [rows |-> G.rows, cols |-> G.cols,
     nodes |-> [p \in Pos(G) |-> serializeNode(G.nodes[p], p[1], p[2])]]

\* `data.f || false`
OrFalse(data, f) == IF f \in DOMAIN data THEN data[f] ELSE FALSE

\* `data.weight || 1`
OrOne(data) == IF "weight" \in DOMAIN data /\ data.weight # 0 THEN data.weight ELSE 1

\* a Node.deserialize that forgets the weight
deserializeNodeNoWeight(n, data) ==
    [n EXCEPT !.isStart = OrFalse(data, "isStart"), !.isEnd = OrFalse(data, "isEnd"),
              !.isWall = OrFalse(data, "isWall"), !.weight = 1]

\* Node.deserialize
deserializeNode(n, data) ==
    [n EXCEPT !.isStart = OrFalse(data, "isStart"), !.isEnd = OrFalse(data, "isEnd"),
              !.isWall = OrFalse(data, "isWall"), !.weight = OrOne(data)]

\* the loops of Grid.deserialize over the cells still to visit, row-major:
\* a cell with data is loaded, and startNode / endNode are set to it when
\* it is then flagged
RECURSIVE populate(_, _, _)
populate(G, nodes, cells) ==
    IF cells = <<>> THEN G
    ELSE LET p  == Head(cells)
             G1 == IF p \in DOMAIN nodes
                   THEN LET n  == deserializeNode(G.nodes[p], nodes[p])
                            G2 == [G EXCEPT !.nodes[p] = n]
                            G3 == IF n.isStart
                                  THEN [G2 EXCEPT !.startNode = Ref(p[1], p[2])] ELSE G2
                        IN  IF n.isEnd THEN [G3 EXCEPT !.endNode = Ref(p[1], p[2])] ELSE G3
                   ELSE G
         IN  populate(G1, nodes, Tail(cells))

\* Grid.deserialize(saveData.data) on an entry: the grid it leaves, and
\* whether it threw (a TypeError on reading data.rows of undefined, or
\* data.nodes[row] of undefined once the grid has been resized)
deserialize(G, entry) ==
    IF "data" \notin DOMAIN entry THEN [grid |-> G, thrown |-> TRUE]
    ELSE LET data  == entry.data
             sized == IF data.rows # G.rows \/ data.cols # G.cols
                      THEN resize(G, data.rows, data.cols) ELSE G
         IN  IF "nodes" \notin DOMAIN data THEN [grid |-> sized, thrown |-> TRUE]
             ELSE [grid |-> populate(sized, data.nodes, getAllNodes(sized)),
                   thrown |-> FALSE]

\* StorageManager.loadGrid: the grid it leaves and the value it returns
loadGrid(G, entry) ==
    IF ~entry.saved THEN [grid |-> G, ok |-> FALSE]
    ELSE LET r == deserialize(G, entry)
         IN  [grid |-> r.grid, ok |-> ~r.thrown]

\* StorageManager.saveGrid: the entry it stores (name and timestamp are not
\* read by the grid)
saveGrid(G) == [saved |-> TRUE, data |-> serialize(G)]

(***************************************************************************)
(* SpecGrid: the operations of one Grid (the application's dijkstraGrid),  *)
(* no search running.                                                      *)
(***************************************************************************)
TheGrid == grid["dijkstra"]

PutGrid(G) ==
    /\ grid' = [grid EXCEPT !["dijkstra"] = G]
    /\ UNCHANGED <<alg, sessions, storage>>

NewAlgorithm == [isRunning |-> FALSE, nodesExplored |-> 0, pathLength |-> 0]

InitGrid ==
    /\ \E s \in Shapes : grid = [a \in AlgIds |-> NewGrid(s[1], s[2])]
    /\ alg = [a \in AlgIds |-> NewAlgorithm]
    /\ sessions = <<>>
    /\ storage = NoEntry

SetStartNode == \E p \in Pos(TheGrid) : PutGrid(setStartNode(TheGrid, p[1], p[2]))

SetEndNode == \E p \in Pos(TheGrid) : PutGrid(setEndNode(TheGrid, p[1], p[2]))

\* handleNodeClick, tool 'wall'
SetAsWall ==
    \E p \in Pos(TheGrid) :
        /\ Cardinality(WallCells(TheGrid)) < MaxWalls
        /\ PutGrid([TheGrid EXCEPT !.nodes[p] = setAsWall(@)])

\* handleNodeClick, tool 'weight'
SetWeight ==
    \E p \in Pos(TheGrid), w \in Weights :
        /\ w > 1 => Cardinality(HeavyCells(TheGrid) \ {p}) < MaxEditHeavy
        /\ PutGrid([TheGrid EXCEPT !.nodes[p] = setWeight(@, w)])

\* handleNodeClick, tool 'eraser'
Clear == \E p \in Pos(TheGrid) : PutGrid([TheGrid EXCEPT !.nodes[p] = clear(@)])

ClearGrid == PutGrid(clearGrid(TheGrid))

Resize == \E s \in Shapes : PutGrid(resize(TheGrid, s[1], s[2]))

RandomizeStartAndEnd ==
    \E s \in StartDraws(TheGrid) :
        \E e \in EndDraws(TheGrid, s[1], s[2]) :
            PutGrid(randomizeStartAndEnd(TheGrid, s[1], s[2], e[1], e[2]))

\* the subsets of S of at most n elements
Bounded(S, n) == { X \in SUBSET S : Cardinality(X) <= n }

\* The maze generator is explored from grids that hold no wall and no heavy
\* cell: its first loop clears every cell that is not Start or End, so
\* nothing else of the grid it starts from reaches its result.
Blank(G) == WallCells(G) = {} /\ HeavyCells(G) = {}

GenerateRandomMaze ==
    /\ Blank(TheGrid)
    /\ \E G2 \in generateRandomMaze(TheGrid) : PutGrid(G2)

\* at most MaxEditHeavy cells draw a weight above 1
GenerateRandomWeights ==
    \E H \in Bounded(Pos(TheGrid), MaxEditHeavy) :
        \E hw \in [H -> Weights \ {1}] :
            PutGrid(generateRandomWeights(TheGrid,
                        [p \in Pos(TheGrid) |-> IF p \in H THEN hw[p] ELSE 1]))

NextGrid ==
    \/ SetStartNode
    \/ SetEndNode
    \/ SetAsWall
    \/ SetWeight
    \/ Clear
    \/ ClearGrid
    \/ Resize
    \/ RandomizeStartAndEnd
    \/ GenerateRandomMaze
    \/ GenerateRandomWeights

SpecGrid == InitGrid /\ [][NextGrid]_vars

(***************************************************************************)
(* Search sessions (src/algorithms/Dijkstra.js, src/algorithms/AStar.js).  *)
(* alg[a] is the algorithm object of grid[a]; a session is one invocation  *)
(* of findPath with its local variables.  A task is threaded through a     *)
(* record st = [G, A, S]: the grid, the algorithm object, the session.     *)
(* Session fields marked, relaxed, stopAt and pushed are history for the   *)
(* properties: the cells this session marked explored, the neighbour       *)
(* updates it made, both counts when stop() was called on it, and the      *)
(* cells in the order of their openSet.push calls.                         *)
(***************************************************************************)
\* JavaScript's Infinity + x
Plus(a, b) == IF a = Infinity THEN Infinity ELSE a + b

Range(seq) == { seq[k] : k \in 1 .. Len(seq) }

\* `currentNode === endNode`
IsNode(ref, p) == ref.live /\ RefPos(ref) = p

NoResult ==
    [success |-> FALSE, message |-> "none", nodesExplored |-> -1, pathLength |-> -1,
     path |-> <<>>]

NoStop == [marked |-> -1, relaxed |-> -1]

NewSession(a, G) ==
    [alg |-> a, pc |-> "run", startNode |-> G.startNode, endNode |-> G.endNode,
     unvisitedNodes |-> <<>>, visitedNodes |-> <<>>, openSet |-> <<>>, closedSet |-> {},
     pushed |-> <<>>,
     currentNode |-> NoNode, path |-> <<>>, i |-> 0,
     progress |-> <<>>, completed |-> <<>>, returned |-> NoResult,
     marked |-> 0, relaxed |-> 0, stopAt |-> NoStop]

\* an insertion that puts an element before the elements that compare equal:
\* a sort that reverses the ties
RECURSIVE InsertBeforeEqual(_, _, _)
InsertBeforeEqual(sorted, x, key) ==
    IF sorted = <<>> THEN <<x>>
    ELSE IF key[x] <= key[Head(sorted)] THEN <<x>> \o sorted
    ELSE <<Head(sorted)>> \o InsertBeforeEqual(Tail(sorted), x, key)

\* Array.prototype.sort is stable: an element goes behind every element that
\* does not compare greater (a NaN from Infinity - Infinity compares as 0).
RECURSIVE Insert(_, _, _)
Insert(sorted, x, key) ==
    IF sorted = <<>> THEN <<x>>
    ELSE IF key[x] < key[Head(sorted)] THEN <<x>> \o sorted
    ELSE <<Head(sorted)>> \o Insert(Tail(sorted), x, key)

\* a sort that leaves the array as it is
StableSortNone(seq, key) == seq

RECURSIVE StableSort(_, _)
StableSort(seq, key) ==
    IF seq = <<>> THEN <<>>
    ELSE Insert(StableSort(SubSeq(seq, 1, Len(seq) - 1), key), seq[Len(seq)], key)

\* a stop block that returns without calling onComplete
StoppedSilent(st) ==
    LET r == [success |-> FALSE, message |-> "Stopped",
              nodesExplored |-> st.A.nodesExplored, pathLength |-> 0, path |-> <<>>]
    IN  [st EXCEPT !.S.pc = "done", !.S.returned = r]

\* the `if (!this.isRunning) { onComplete(...); return ...}` blocks
Stopped(st) ==
    LET r == [success |-> FALSE, message |-> "Stopped",
              nodesExplored |-> st.A.nodesExplored, pathLength |-> 0, path |-> <<>>]
    IN  [st EXCEPT !.S.pc = "done", !.S.completed = Append(@, r), !.S.returned = r]

\* an exhausted search that forgets `this.isRunning = false`
NoPathFoundStillRunning(st) ==
    LET r == [success |-> FALSE, message |-> "No path found",
              nodesExplored |-> st.A.nodesExplored, pathLength |-> 0, path |-> <<>>]
    IN  [st EXCEPT !.S.pc = "done", !.S.completed = Append(@, r), !.S.returned = r]

\* "No path found", after the while loop
NoPathFound(st) ==
    LET r == [success |-> FALSE, message |-> "No path found",
              nodesExplored |-> st.A.nodesExplored, pathLength |-> 0, path |-> <<>>]
    IN  [st EXCEPT !.A.isRunning = FALSE,
                   !.S.pc = "done", !.S.completed = Append(@, r), !.S.returned = r]

\* after `await this.animatePath(path)`
PathFound(st) ==
    LET r == [success |-> TRUE, message |-> "",
              nodesExplored |-> st.A.nodesExplored, pathLength |-> st.A.pathLength,
              path |-> st.S.path]
    IN  [st EXCEPT !.A.isRunning = FALSE,
                   !.S.pc = "done", !.S.completed = Append(@, r), !.S.returned = r]

\* reconstructPath loops for ever when the previousNode links form a cycle
RECURSIVE LinksCycle(_, _, _)
LinksCycle(G, p, seen) ==
    IF p = NoNode THEN FALSE
    ELSE IF p \in seen THEN TRUE
    ELSE LinksCycle(G, G.nodes[p].previousNode, seen \cup {p})

RECURSIVE reconstructPath(_, _)
reconstructPath(G, p) ==
    IF p = NoNode THEN <<>> ELSE Append(reconstructPath(G, G.nodes[p].previousNode), p)

\* animatePath from index S.i (0-based as in the source) to its next delay
animatePath(st) ==
    IF st.S.i < Len(st.S.path) - 1
    THEN IF ~st.A.isRunning THEN PathFound(st)
         ELSE [st EXCEPT !.G.nodes[st.S.path[st.S.i + 1]] = markAsPath(@),
                         !.S.pc = "animate"]
    ELSE PathFound(st)

\* the delay of animatePath has elapsed
AnimateAfterDelay(st) ==
    IF ~st.A.isRunning THEN PathFound(st)
    ELSE animatePath([st EXCEPT !.S.i = @ + 1])

\* a goal block that reports the number of moves instead of the number of cells
GoalReachedEdges(st) ==
    IF LinksCycle(st.G, RefPos(st.S.endNode), {})
    THEN [st EXCEPT !.S.pc = "hung"]
    ELSE LET path == reconstructPath(st.G, RefPos(st.S.endNode))
         IN  animatePath([st EXCEPT !.S.path = path, !.S.i = 1,
                                    !.A.pathLength = Len(path) - 1])

\* `if (currentNode === endNode) { ... }`
GoalReached(st) ==
    IF LinksCycle(st.G, RefPos(st.S.endNode), {})
    THEN [st EXCEPT !.S.pc = "hung"]
    ELSE LET path == reconstructPath(st.G, RefPos(st.S.endNode))
         IN  animatePath([st EXCEPT !.S.path = path, !.S.i = 1,
                                    !.A.pathLength = Len(path)])

\* an exploration step that forgets `this.nodesExplored++`
ExploreUncounted(st, cur) ==
    [st EXCEPT !.G.nodes[cur] = markAsExplored(@),
               !.S.progress = Append(@, st.A.nodesExplored),
               !.S.marked = @ + 1,
               !.S.pc = "delay"]

\* markAsExplored, nodesExplored++, onProgress, then `await this.delay(...)`
Explore(st, cur) ==
    [st EXCEPT !.G.nodes[cur] = markAsExplored(@),
               !.A.nodesExplored = @ + 1,
               !.S.progress = Append(@, st.A.nodesExplored + 1),
               !.S.marked = @ + 1,
               !.S.pc = "delay"]

(************************* Dijkstra ****************************************)
\* a relaxation that also takes a tentative distance equal to the recorded one
RECURSIVE updateNeighborsOnEqual(_, _, _)
updateNeighborsOnEqual(st, cur, nbrs) ==
    IF nbrs = <<>> \/ ~st.A.isRunning THEN st
    ELSE LET nb == Head(nbrs)
             tentativeDistance ==
                 Plus(st.G.nodes[cur].distance, getMovementCost(st.G.nodes[nb]))
             s1 == IF ~st.G.nodes[nb].isWall /\ tentativeDistance <= st.G.nodes[nb].distance
                   THEN [st EXCEPT !.G.nodes[nb].distance = tentativeDistance,
                                   !.G.nodes[nb].previousNode = cur,
                                   !.S.relaxed = @ + 1]
                   ELSE st
         IN  updateNeighborsOnEqual(s1, cur, Tail(nbrs))

RECURSIVE updateNeighbors(_, _, _)
updateNeighbors(st, cur, nbrs) ==
    IF nbrs = <<>> \/ ~st.A.isRunning THEN st
    ELSE LET nb == Head(nbrs)
             tentativeDistance ==
                 Plus(st.G.nodes[cur].distance, getMovementCost(st.G.nodes[nb]))
             s1 == IF ~st.G.nodes[nb].isWall /\ tentativeDistance < st.G.nodes[nb].distance
                   THEN [st EXCEPT !.G.nodes[nb].distance = tentativeDistance,
                                   !.G.nodes[nb].previousNode = cur,
                                   !.S.relaxed = @ + 1]
                   ELSE st
         IN  updateNeighbors(s1, cur, Tail(nbrs))

RECURSIVE DijkstraLoop(_)

\* Dijkstra.js 94-125, for the popped node S.currentNode
DijkstraVisit(st) ==
    LET cur == st.S.currentNode
        s1  == [st EXCEPT !.S.visitedNodes = Append(@, cur)]
    IN  IF IsNode(st.S.endNode, cur) THEN GoalReached(s1)
        ELSE LET s2 == updateNeighbors(s1, cur, getNeighbors(s1.G, cur))
             IN  IF ~s2.A.isRunning THEN Stopped(s2) ELSE DijkstraLoop(s2)

\* Dijkstra.js 60-92: the head of the while loop, up to the delay
DijkstraLoop(st) ==
    IF st.S.unvisitedNodes = <<>> THEN NoPathFound(st)
    ELSE IF ~st.A.isRunning THEN Stopped(st)
    ELSE LET sorted == StableSort(st.S.unvisitedNodes,
                                  [p \in Pos(st.G) |-> st.G.nodes[p].distance])
             cur == Head(sorted)
             s1  == [st EXCEPT !.S.unvisitedNodes = Tail(sorted), !.S.currentNode = cur]
         IN  IF st.G.nodes[cur].isWall \/ st.G.nodes[cur].distance = Infinity
             THEN NoPathFound(s1)
             ELSE IF ~st.G.nodes[cur].isStart /\ ~st.G.nodes[cur].isEnd
             THEN Explore(s1, cur)
             ELSE DijkstraVisit(s1)

\* Dijkstra.js 88-91: the exploration delay has elapsed
DijkstraAfterDelay(st) ==
    IF ~st.A.isRunning THEN Stopped(st) ELSE DijkstraVisit([st EXCEPT !.S.pc = "run"])

\* Dijkstra.js 52-58
DijkstraStart(st) ==
    DijkstraLoop([st EXCEPT !.G.nodes[RefPos(st.S.startNode)].distance = 0,
                            !.S.unvisitedNodes = getAllNodes(st.G)])

(************************* A* **********************************************)
\* heuristics that are not admissible: ten times the Manhattan distance, and
\* one that grows towards the goal
calculateHeuristicInflated(p, goal) == 10 * manhattanDistanceTo(p, RefPos(goal))

calculateHeuristicAway(p, goal) == 0 - 10 * manhattanDistanceTo(p, RefPos(goal))

calculateHeuristic(p, goal) == manhattanDistanceTo(p, RefPos(goal))

\* a neighbour loop that does not skip the cells of the closed set
RECURSIVE ExamineNeighborsReopens(_, _, _)
ExamineNeighborsReopens(st, cur, nbrs) ==
    IF nbrs = <<>> THEN st
    ELSE IF ~st.A.isRunning THEN Stopped(st)
    ELSE LET nb == Head(nbrs)
             tentativeGScore ==
                 Plus(st.G.nodes[cur].gScore, getMovementCost(st.G.nodes[nb]))
             neighborInOpenSet == nb \in Range(st.S.openSet)
         IN  IF st.G.nodes[nb].isWall
             THEN ExamineNeighborsReopens(st, cur, Tail(nbrs))
             ELSE IF neighborInOpenSet /\ tentativeGScore >= st.G.nodes[nb].gScore
             THEN ExamineNeighborsReopens(st, cur, Tail(nbrs))
             ELSE ExamineNeighborsReopens(
                      [st EXCEPT !.S.openSet = IF neighborInOpenSet THEN @ ELSE Append(@, nb),
                                 !.S.pushed = IF neighborInOpenSet THEN @ ELSE Append(@, nb),
                                 !.G.nodes[nb].previousNode = cur,
                                 !.G.nodes[nb].gScore = tentativeGScore,
                                 !.G.nodes[nb].fScore =
                                     Plus(tentativeGScore, calculateHeuristic(nb, st.S.endNode)),
                                 !.S.relaxed = @ + 1],
                      cur, Tail(nbrs))

\* AStar.js 118-146: the neighbour loop; S.pc = "done" if it returned `Stopped`
RECURSIVE ExamineNeighbors(_, _, _)
ExamineNeighbors(st, cur, nbrs) ==
    IF nbrs = <<>> THEN st
    ELSE IF ~st.A.isRunning THEN Stopped(st)
    ELSE LET nb == Head(nbrs)
             tentativeGScore ==
                 Plus(st.G.nodes[cur].gScore, getMovementCost(st.G.nodes[nb]))
             neighborInOpenSet == nb \in Range(st.S.openSet)
         IN  IF st.G.nodes[nb].isWall \/ nb \in st.S.closedSet
             THEN ExamineNeighbors(st, cur, Tail(nbrs))
             ELSE IF neighborInOpenSet /\ tentativeGScore >= st.G.nodes[nb].gScore
             THEN ExamineNeighbors(st, cur, Tail(nbrs))
             ELSE ExamineNeighbors(
                      [st EXCEPT !.S.openSet = IF neighborInOpenSet THEN @ ELSE Append(@, nb),
                                 !.S.pushed = IF neighborInOpenSet THEN @ ELSE Append(@, nb),
                                 !.G.nodes[nb].previousNode = cur,
                                 !.G.nodes[nb].gScore = tentativeGScore,
                                 !.G.nodes[nb].fScore =
                                     Plus(tentativeGScore, calculateHeuristic(nb, st.S.endNode)),
                                 !.S.relaxed = @ + 1],
                      cur, Tail(nbrs))

RECURSIVE AStarLoop(_)

\* AStar.js 91-146, for the popped node S.currentNode
AStarVisit(st) ==
    LET cur == st.S.currentNode
    IN  IF IsNode(st.S.endNode, cur) THEN GoalReached(st)
        ELSE LET s2 == ExamineNeighbors(st, cur, getNeighbors(st.G, cur))
             IN  IF s2.S.pc = "done" THEN s2 ELSE AStarLoop(s2)

\* AStar.js 61-89: the head of the while loop, up to the delay
AStarLoop(st) ==
    IF st.S.openSet = <<>> THEN NoPathFound(st)
    ELSE IF ~st.A.isRunning THEN Stopped(st)
    ELSE LET sorted == StableSort(st.S.openSet,
                                  [p \in Pos(st.G) |-> st.G.nodes[p].fScore])
             cur == Head(sorted)
             s1  == [st EXCEPT !.S.openSet = Tail(sorted), !.S.currentNode = cur,
                               !.S.closedSet = @ \cup {cur}]
         IN  IF ~st.G.nodes[cur].isStart /\ ~st.G.nodes[cur].isEnd
             THEN Explore(s1, cur)
             ELSE AStarVisit(s1)

\* AStar.js 85-88: the exploration delay has elapsed
AStarAfterDelay(st) ==
    IF ~st.A.isRunning THEN Stopped(st) ELSE AStarVisit([st EXCEPT !.S.pc = "run"])

\* AStar.js 52-59
AStarStart(st) ==
    LET p == RefPos(st.S.startNode)
    IN  AStarLoop([st EXCEPT !.G.nodes[p].gScore = 0,
                             !.G.nodes[p].fScore = calculateHeuristic(p, st.S.endNode),
                             !.S.openSet = <<p>>, !.S.pushed = <<p>>])

(************************* findPath, stop, timers **************************)
\* findPath lines 36-50 and on to the first delay; the caller has seen
\* isRunning false.
findPath(a, G, A) ==
    LET st == [G |-> resetAlgorithmStates(G),
               A |-> [A EXCEPT !.isRunning = TRUE, !.nodesExplored = 0, !.pathLength = 0],
               S |-> NewSession(a, G)]
    IN  IF G.startNode = NoRef \/ G.endNode = NoRef
        THEN [st EXCEPT !.A.isRunning = FALSE, !.S.pc = "done",
                        !.S.returned = [NoResult EXCEPT
                                           !.message = "Start or end node not found"]]
        ELSE IF a = "dijkstra" THEN DijkstraStart(st) ELSE AStarStart(st)

\* an initializeAlgorithms that hands the Dijkstra grid to both instances
AlgorithmGridShared(a) == "dijkstra"

\* `this.grid` of an algorithm instance: initializeAlgorithms binds the Dijkstra
\* instance to dijkstraGrid and the A* instance to astarGrid
AlgorithmGrid(a) == a

\* a reconstructPath that never returns blocks the page's only thread
NoTaskHangs == \A k \in 1 .. Len(sessions) : sessions[k].pc # "hung"

\* A call of alg[a].findPath(onProgress, onComplete); line 34 ignores it while
\* isRunning is set.
FindPath(a) ==
    /\ NoTaskHangs
    /\ IF alg[a].isRunning
       THEN UNCHANGED vars
       ELSE LET r == findPath(a, grid[AlgorithmGrid(a)], alg[a])
            IN  /\ grid' = [grid EXCEPT ![AlgorithmGrid(a)] = r.G]
                /\ alg' = [alg EXCEPT ![a] = r.A]
                /\ sessions' = Append(sessions, r.S)
                /\ UNCHANGED storage

\* A call of alg[a].stop().  stopAt notes the call on the sessions that are
\* waiting in their exploration delay.
Stop(a) ==
    /\ NoTaskHangs
    /\ alg' = [alg EXCEPT ![a].isRunning = FALSE]
    /\ sessions' = [k \in 1 .. Len(sessions) |->
                       IF sessions[k].alg = a /\ sessions[k].pc = "delay"
                          /\ sessions[k].stopAt = NoStop
                       THEN [sessions[k] EXCEPT !.stopAt =
                                [marked |-> sessions[k].marked,
                                 relaxed |-> sessions[k].relaxed]]
                       ELSE sessions[k]]
    /\ UNCHANGED <<grid, storage>>

\* The setTimeout of session k's pending delay() fires.
Timer(k) ==
    /\ NoTaskHangs
    /\ sessions[k].pc \in {"delay", "animate"}
    /\ LET a  == sessions[k].alg
           st == [G |-> grid[AlgorithmGrid(a)], A |-> alg[a], S |-> sessions[k]]
           r  == IF sessions[k].pc = "animate" THEN AnimateAfterDelay(st)
                 ELSE IF a = "dijkstra" THEN DijkstraAfterDelay(st)
                 ELSE AStarAfterDelay(st)
       IN  /\ grid' = [grid EXCEPT ![AlgorithmGrid(a)] = r.G]
           /\ alg' = [alg EXCEPT ![a] = r.A]
           /\ sessions' = [sessions EXCEPT ![k] = r.S]
           /\ UNCHANGED storage

(***************************************************************************)
(* Layouts: the grids the Grid operations produce from a fresh grid with   *)
(* live references: Start at s, End at e, walls on W, weight hw[p] on the  *)
(* cells p of the domain of hw, no annotations.                            *)
(***************************************************************************)
LayoutGrid(rows, cols, s, e, W, hw) ==
    [rows |-> rows, cols |-> cols,
     nodes |-> [p \in Positions(rows, cols) |->
                  [NewNode EXCEPT !.isStart = (p = s), !.isEnd = (p = e),
                                  !.isWall = (p \in W),
                                  !.weight = IF p \in DOMAIN hw THEN hw[p] ELSE 1]],
     startNode |-> Ref(s[1], s[2]), endNode |-> Ref(e[1], e[2])]

\* both grids hold one layout of at most maxWalls walls and at most maxHeavy
\* cells of weight above 1
Layouts(maxWalls, maxHeavy) ==
    \E sh \in Shapes :
      \E s \in Positions(sh[1], sh[2]) :
        \E e \in Positions(sh[1], sh[2]) \ {s} :
          \E W \in Bounded(Positions(sh[1], sh[2]) \ {s, e}, maxWalls) :
            \E H \in Bounded(Positions(sh[1], sh[2]) \ ({s, e} \cup W), maxHeavy) :
              \E hw \in [H -> Weights \ {1}] :
                grid = [a \in AlgIds |-> LayoutGrid(sh[1], sh[2], s, e, W, hw)]

(***************************************************************************)
(* SpecSearch: PathfinderApp.findPaths on two grids that hold the same     *)
(* layout, never stopped.  The two sessions share no state, so the A*      *)
(* session is taken after the Dijkstra session has ended.                  *)
(***************************************************************************)
InitSearch ==
    /\ Layouts(MaxWalls, MaxHeavy)
    /\ alg = [a \in AlgIds |-> NewAlgorithm]
    /\ sessions = <<>>
    /\ storage = NoEntry

FindPathDijkstra == sessions = <<>> /\ FindPath("dijkstra")

FindPathAStar == Len(sessions) = 1 /\ sessions[1].pc = "done" /\ FindPath("astar")

DelayElapsed == \E k \in 1 .. Len(sessions) : Timer(k)

NextSearch ==
    \/ FindPathDijkstra
    \/ FindPathAStar
    \/ DelayElapsed

SpecSearch == InitSearch /\ [][NextSearch]_vars

(***************************************************************************)
(* SpecWide: the same two sessions on a wider grid as new Grid builds it,  *)
(* Start in the top left corner and End in the bottom right one, edited    *)
(* with the wall tool and the weights 2 and 5 of the weight selector.      *)
(***************************************************************************)
WideShape == <<2, 5>>

WideWeights == {2, 5}

WideLayouts ==
    LET P == Positions(WideShape[1], WideShape[2])
        s == <<0, 0>>
        e == <<WideShape[1] - 1, WideShape[2] - 1>>
    IN  \E W \in Bounded(P \ {s, e}, MaxWideWalls) :
          \E H \in Bounded(P \ ({s, e} \cup W), MaxHeavy) :
            \E hw \in [H -> WideWeights] :
              grid = [a \in AlgIds |-> LayoutGrid(WideShape[1], WideShape[2], s, e, W, hw)]

InitWide ==
    /\ WideLayouts
    /\ alg = [a \in AlgIds |-> NewAlgorithm]
    /\ sessions = <<>>
    /\ storage = NoEntry

SpecWide == InitWide /\ [][NextSearch]_vars

(***************************************************************************)
(* SpecStop: findPath() and stop() called on one algorithm instance in any *)
(* order, between the expiries of the sessions' delays.  PathfinderApp     *)
(* reaches every such order: stopAlgorithms clears its own isRunning at    *)
(* once, so findPaths can follow while the delays are still pending.       *)
(***************************************************************************)
InitStop ==
    /\ Layouts(MaxStopWalls, 0)
    /\ alg = [a \in AlgIds |-> NewAlgorithm]
    /\ sessions = <<>>
    /\ storage = NoEntry

\* the instance the behaviour is about
Instance(a) == IF sessions = <<>> THEN TRUE ELSE sessions[1].alg = a

CallFindPath == \E a \in AlgIds : Instance(a) /\ Len(sessions) < MaxSessions /\ FindPath(a)

CallStop == \E a \in AlgIds : sessions # <<>> /\ Instance(a) /\ Stop(a)

NextStop ==
    \/ CallFindPath
    \/ CallStop
    \/ DelayElapsed

SpecStop == InitStop /\ [][NextStop]_vars

(***************************************************************************)
(* C1: after any sequence of Grid operations exactly one cell has the      *)
(* Start role and exactly one the End role, they are different cells, and  *)
(* startNode/endNode are exactly those cells of the current matrix.        *)
(***************************************************************************)
RolesWellFormed(G) ==
    /\ Cardinality(StartCells(G)) = 1
    /\ Cardinality(EndCells(G)) = 1
    /\ StartCells(G) # EndCells(G)
    /\ G.startNode.live /\ StartCells(G) = {RefPos(G.startNode)}
    /\ G.endNode.live /\ EndCells(G) = {RefPos(G.endNode)}

C1_ExactlyOneStartAndEnd == RolesWellFormed(TheGrid)

(***************************************************************************)
(* Graph notions the search claims refer to, defined without the search    *)
(* code: reachability and the cheapest cost over the non-wall cells, moving*)
(* between 4-adjacent cells and paying the weight of each cell entered.    *)
(***************************************************************************)
Adjacent(p, q) == manhattanDistanceTo(p, q) = 1

Open(G) == Pos(G) \ WallCells(G)

RECURSIVE Closure(_, _)
Closure(G, R) ==
    LET more == R \cup { q \in Open(G) : \E p \in R : Adjacent(p, q) }
    IN  IF more = R THEN R ELSE Closure(G, more)

\* the non-wall cells that can be reached from cell p, p included
ReachableFrom(G, p) == Closure(G, {p})

\* cheapest cost from p to every cell, by repeated relaxation to a fixpoint
RECURSIVE Cheapest(_, _)
Cheapest(G, d) ==
    LET Best(q) ==
            LET via == { Plus(d[p], G.nodes[q].weight) :
                           p \in { x \in Pos(G) : Adjacent(x, q) /\ d[x] < Infinity } }
            IN  IF via = {} THEN d[q]
                ELSE LET m == CHOOSE v \in via : \A u \in via : v <= u
                     IN  IF m < d[q] THEN m ELSE d[q]
        next == [q \in Pos(G) |-> IF G.nodes[q].isWall THEN d[q] ELSE Best(q)]
    IN  IF next = d THEN d ELSE Cheapest(G, next)

MinCost(G, from, to) ==
    Cheapest(G, [q \in Pos(G) |-> IF q = from THEN 0 ELSE Infinity])[to]

RECURSIVE PathCost(_, _)
PathCost(G, path) ==
    IF Len(path) <= 1 THEN 0
    ELSE G.nodes[path[Len(path)]].weight + PathCost(G, SubSeq(path, 1, Len(path) - 1))

StartOf(G) == RefPos(G.startNode)
EndOf(G) == RefPos(G.endNode)

Done(k) == k <= Len(sessions) /\ sessions[k].pc = "done"
GridOf(k) == grid[AlgorithmGrid(sessions[k].alg)]
Result(k) == sessions[k].returned

\* all in-bounds neighbours of End are walls
EndEnclosed(G) == \A q \in Pos(G) : Adjacent(q, EndOf(G)) => G.nodes[q].isWall

(***************************************************************************)
(* C4: a session that is never cancelled ends with success=true iff End is *)
(* reachable from Start over non-wall cells; otherwise it ends "No path    *)
(* found" with success=false and pathLength=0, for both algorithms.         *)
(***************************************************************************)
C4_FoundIffReachable ==
    \A k \in 1 .. Len(sessions) :
        Done(k) =>
            /\ Result(k).success <=> EndOf(GridOf(k)) \in ReachableFrom(GridOf(k), StartOf(GridOf(k)))
            /\ ~Result(k).success =>
                   Result(k).message = "No path found" /\ Result(k).pathLength = 0

C4_Witness ==
    /\ Done(1) /\ Done(2)
    /\ Result(1).success /\ Result(2).success
    /\ WallCells(GridOf(1)) # {}

(***************************************************************************)
(* C5: on success the cost of the returned path (the weights of its cells  *)
(* after Start) is the minimum over all wall-free 4-connected paths from   *)
(* Start to End, for both algorithms.                                      *)
(***************************************************************************)
C5_PathCostIsMinimal ==
    \A k \in 1 .. Len(sessions) :
        Done(k) /\ Result(k).success =>
            PathCost(GridOf(k), Result(k).path)
                = MinCost(GridOf(k), StartOf(GridOf(k)), EndOf(GridOf(k)))

C5_Witness ==
    /\ Done(1) /\ Done(2) /\ Result(1).success /\ Result(2).success
    /\ PathCost(GridOf(2), Result(2).path) > Len(Result(2).path) - 1
    /\ Len(Result(2).path) > manhattanDistanceTo(StartOf(GridOf(2)), EndOf(GridOf(2))) + 1

(***************************************************************************)
(* C6: on success the path starts at Start, ends at End, holds no wall and *)
(* no cell twice, consecutive cells are 4-adjacent, and pathLength is the  *)
(* number of cells of the path.                                            *)
(***************************************************************************)
WellFormedPath(G, path) ==
    /\ Len(path) >= 1
    /\ path[1] = StartOf(G)
    /\ path[Len(path)] = EndOf(G)
    /\ \A x \in 1 .. Len(path) : path[x] \in Pos(G) /\ ~G.nodes[path[x]].isWall
    /\ \A x, y \in 1 .. Len(path) : x # y => path[x] # path[y]
    /\ \A x \in 1 .. Len(path) - 1 : Adjacent(path[x], path[x + 1])

C6_PathWellFormed ==
    \A k \in 1 .. Len(sessions) :
        Done(k) /\ Result(k).success =>
            /\ WellFormedPath(GridOf(k), Result(k).path)
            /\ Result(k).pathLength = Len(Result(k).path)

C6_Witness ==
    /\ Done(1) /\ Done(2) /\ Result(1).success /\ Result(2).success
    /\ Len(Result(1).path) >= 4

(***************************************************************************)
(* C7: when End is reachable, Dijkstra and A* report the same pathLength   *)
(* on the same layout.                                                     *)
(***************************************************************************)
C7_SamePathLength ==
    Done(1) /\ Done(2) /\ Result(1).success /\ Result(2).success =>
        Result(1).pathLength = Result(2).pathLength

\* C7 as amended: the two paths cost the same, and hold the same number of
\* cells when no cell of the grid weighs more than 1
C7_SameCostAndUnitLength ==
    Done(1) /\ Done(2) /\ Result(1).success /\ Result(2).success =>
        /\ PathCost(GridOf(1), Result(1).path) = PathCost(GridOf(2), Result(2).path)
        /\ HeavyCells(GridOf(1)) = {} => Result(1).pathLength = Result(2).pathLength

C7_Witness ==
    /\ Done(1) /\ Done(2) /\ Result(1).success /\ Result(2).success
    /\ HeavyCells(GridOf(1)) = {}
    /\ WallCells(GridOf(1)) # {}
    /\ Result(1).path # Result(2).path

(***************************************************************************)
(* C8: on the same layout, both run to completion, A* reports no more      *)
(* nodesExplored than Dijkstra.                                            *)
(***************************************************************************)
C8_AStarExploresNoMore ==
    Done(1) /\ Done(2) => Result(2).nodesExplored <= Result(1).nodesExplored

C8_Witness ==
    /\ Done(1) /\ Done(2)
    /\ Result(2).success
    /\ Result(2).nodesExplored < Result(1).nodesExplored

(***************************************************************************)
(* C9: when End is enclosed by walls both algorithms end "No path found"   *)
(* with success=false, pathLength=0 and nodesExplored equal to the number  *)
(* of non-wall cells reachable from Start.                                 *)
(***************************************************************************)
C9_EnclosedEndCountsReachable ==
    \A k \in 1 .. Len(sessions) :
        Done(k) /\ EndEnclosed(GridOf(k)) =>
            /\ ~Result(k).success
            /\ Result(k).message = "No path found"
            /\ Result(k).pathLength = 0
            /\ Result(k).nodesExplored
                   = Cardinality(ReachableFrom(GridOf(k), StartOf(GridOf(k))))

\* C9 as amended: the count leaves out Start, which is never marked explored
C9_EnclosedEndCountsReachableButStart ==
    \A k \in 1 .. Len(sessions) :
        Done(k) /\ EndEnclosed(GridOf(k)) =>
            /\ ~Result(k).success
            /\ Result(k).message = "No path found"
            /\ Result(k).pathLength = 0
            /\ Result(k).nodesExplored
                   = Cardinality(ReachableFrom(GridOf(k), StartOf(GridOf(k)))
                                     \ {StartOf(GridOf(k))})

C9_Witness ==
    /\ Done(1) /\ Done(2)
    /\ EndEnclosed(GridOf(1))
    /\ Result(1).nodesExplored >= 2 /\ Result(2).nodesExplored >= 2

(***************************************************************************)
(* C2: once stop() is called on a session that waits in its exploration    *)
(* delay, that session marks no further cell explored, relaxes no further  *)
(* cell, and completes with success=false, pathLength=0 and nodesExplored  *)
(* equal to the count it had accumulated, whatever is called on the        *)
(* instance afterwards.                                                    *)
(***************************************************************************)
C2_StoppedSessionHalts ==
    \A k \in 1 .. Len(sessions) :
        sessions[k].stopAt # NoStop =>
            /\ sessions[k].marked = sessions[k].stopAt.marked
            /\ sessions[k].relaxed = sessions[k].stopAt.relaxed
            /\ Done(k) =>
                   /\ ~Result(k).success
                   /\ Result(k).pathLength = 0
                   /\ Result(k).nodesExplored = sessions[k].stopAt.marked

(***************************************************************************)
(* C3: at most one session of an algorithm instance can still pop cells or *)
(* write annotations: a findPath() call is ignored, or starts when no      *)
(* earlier session of the instance can continue.                          *)
(***************************************************************************)
Active(k) == sessions[k].pc \in {"delay", "animate"} /\ alg[sessions[k].alg].isRunning

C3_SingleActiveSession ==
    \A k, l \in 1 .. Len(sessions) :
        sessions[k].alg = sessions[l].alg /\ Active(k) /\ Active(l) => k = l

(***************************************************************************)
(* C10: onComplete is invoked exactly once per session, at its terminal    *)
(* transition, with the payload findPath returns: never before, never      *)
(* twice, never with another payload.                                      *)
(***************************************************************************)
C10_CompletedExactlyOnce ==
    \A k \in 1 .. Len(sessions) :
        /\ Done(k) => sessions[k].completed = <<Result(k)>>
        /\ ~Done(k) => sessions[k].completed = <<>>

C10_Witness ==
    \E k, l \in 1 .. Len(sessions) :
        /\ Done(k) /\ Result(k).message = "Stopped"
        /\ Done(l) /\ Result(l).message = "No path found"
        /\ sessions[k].completed = <<Result(k)>>
        /\ sessions[l].completed = <<Result(l)>>

(***************************************************************************)
(* Claims about clearGrid, resize, setStartNode and setEndNode, under      *)
(* SpecGrid.  Each is stated on the value the operation returns when it is *)
(* called in the current state.                                            *)
(***************************************************************************)
\* the layout of a cleared grid: no wall, every weight 1, Start at (0,0),
\* End at (rows-1, cols-1), no other role
DefaultLayout(G) ==
    /\ \A p \in Pos(G) :
          /\ ~G.nodes[p].isWall
          /\ G.nodes[p].weight = 1
          /\ G.nodes[p].isStart <=> p = <<0, 0>>
          /\ G.nodes[p].isEnd <=> p = <<G.rows - 1, G.cols - 1>>

\* C12: from every reachable grid state, clearGrid leaves every cell
\* non-wall with weight 1, Start at (0,0), End at (rows-1, cols-1) and no
\* other cell with a role.
C12_ClearGridRestoresDefaults == DefaultLayout(clearGrid(TheGrid))

\* an R x C grid of fresh cells with the default corners, both references
\* on cells of its own matrix
FreshGrid(G, R, C) ==
    /\ G.rows = R /\ G.cols = C
    /\ DOMAIN G.nodes = Positions(R, C)
    /\ \A p \in Positions(R, C) :
          G.nodes[p] = IF p = <<0, 0>> THEN setAsStart(NewNode)
                       ELSE IF p = <<R - 1, C - 1>> THEN setAsEnd(NewNode)
                       ELSE NewNode
    /\ G.startNode = Ref(0, 0)
    /\ G.endNode = Ref(R - 1, C - 1)

\* C13: after resize(R, C) from every reachable grid state the grid is R x C
\* fresh cells, Start at (0,0), End at (R-1, C-1), and startNode/endNode
\* refer to cells of the new matrix.
C13_ResizeBuildsFreshGrid ==
    \A s \in Shapes : FreshGrid(resize(TheGrid, s[1], s[2]), s[1], s[2])

\* C14: setStartNode(r, c) when End is at (r, c), and setEndNode(r, c) when
\* Start is at (r, c), return the grid unchanged: no role, wall flag or
\* weight changes and both references are the same.
C14_BlockedPlacementIsNoOp ==
    \A p \in Pos(TheGrid) :
        /\ TheGrid.nodes[p].isEnd => setStartNode(TheGrid, p[1], p[2]) = TheGrid
        /\ TheGrid.nodes[p].isStart => setEndNode(TheGrid, p[1], p[2]) = TheGrid

\* a grid with a wall and a heavy cell whose Start and End were both moved
\* off the default corners, where either placement onto the other role's
\* cell is blocked
C14_Witness ==
    /\ RolesWellFormed(TheGrid)
    /\ WallCells(TheGrid) # {} /\ HeavyCells(TheGrid) # {}
    /\ <<0, 0>> \notin StartCells(TheGrid)
    /\ <<TheGrid.rows - 1, TheGrid.cols - 1>> \notin EndCells(TheGrid)
    /\ \E p \in EndCells(TheGrid) : RefIsAt(TheGrid.endNode, p[1], p[2])
    /\ \E p \in StartCells(TheGrid) : RefIsAt(TheGrid.startNode, p[1], p[2])

\* what an unblocked placement of a role on p does to the cells: holders are
\* the cells that had the role, G2 the grid returned
PlacementFrame(G, G2, p, holders) ==
    /\ G2.rows = G.rows /\ G2.cols = G.cols
    /\ \A q \in Pos(G) \ (holders \cup {p}) : G2.nodes[q] = G.nodes[q]
    /\ \A q \in holders \ {p} :
          /\ ~G2.nodes[q].isStart /\ ~G2.nodes[q].isEnd
          /\ G2.nodes[q].isWall = G.nodes[q].isWall
          /\ G2.nodes[q].weight = G.nodes[q].weight
    /\ ~G2.nodes[p].isWall /\ G2.nodes[p].weight = 1
    /\ Cardinality({ q \in Pos(G) : G2.nodes[q] # G.nodes[q] }) <= 2

\* C19: a setStartNode/setEndNode call that is not blocked changes at most
\* two cells: the previous holder of the role becomes Normal, the
\* destination gets the role with its wall cleared and weight 1; every
\* other cell and the other role's reference are unchanged, and the
\* reference of the moved role points at the destination.
C19_PlacementChangesTwoCells ==
    \A p \in Pos(TheGrid) :
        /\ ~RefIsAt(TheGrid.endNode, p[1], p[2]) =>
              LET G2 == setStartNode(TheGrid, p[1], p[2])
              IN  /\ PlacementFrame(TheGrid, G2, p, StartCells(TheGrid))
                  /\ StartCells(G2) = {p} /\ ~G2.nodes[p].isEnd
                  /\ EndCells(G2) = EndCells(TheGrid)
                  /\ G2.endNode = TheGrid.endNode
                  /\ G2.startNode = Ref(p[1], p[2])
        /\ ~RefIsAt(TheGrid.startNode, p[1], p[2]) =>
              LET G2 == setEndNode(TheGrid, p[1], p[2])
              IN  /\ PlacementFrame(TheGrid, G2, p, EndCells(TheGrid))
                  /\ EndCells(G2) = {p} /\ ~G2.nodes[p].isStart
                  /\ StartCells(G2) = StartCells(TheGrid)
                  /\ G2.startNode = TheGrid.startNode
                  /\ G2.endNode = Ref(p[1], p[2])

\* a grid whose Start was placed on a cell away from (0,0) while a wall and
\* a heavy cell and the End stayed as they were: an unblocked placement has
\* acted, and the next one would move the role off that cell again
C19_Witness ==
    /\ RolesWellFormed(TheGrid)
    /\ TheGrid.startNode = Ref(TheGrid.rows - 1, 0)
    /\ TheGrid.endNode = Ref(0, TheGrid.cols - 1)
    /\ WallCells(TheGrid) # {} /\ HeavyCells(TheGrid) # {}
    /\ \E p \in WallCells(TheGrid) :
          StartCells(setStartNode(TheGrid, p[1], p[2])) = {p}

(***************************************************************************)
(* SpecMaze: one Grid of MazeShape, its Start and End moved, the grid      *)
(* cleared, a maze generated.                                              *)
(***************************************************************************)
\* the smallest grid in which recursive division draws a second wall line
MazeShape == <<4, 3>>

InitMaze ==
    /\ grid = [a \in AlgIds |-> NewGrid(MazeShape[1], MazeShape[2])]
    /\ alg = [a \in AlgIds |-> NewAlgorithm]
    /\ sessions = <<>>
    /\ storage = NoEntry

NextMaze ==
    \/ SetStartNode
    \/ SetEndNode
    \/ ClearGrid
    \/ GenerateRandomMaze

SpecMaze == InitMaze /\ [][NextMaze]_vars

(***************************************************************************)
(* Claims about generateRandomMaze, under SpecMaze.                        *)
(***************************************************************************)
\* the grids generateRandomMaze can leave when called in the current state
MazeResults == IF Blank(TheGrid) THEN generateRandomMaze(TheGrid) ELSE {}

\* C11: after generateRandomMaze returns, for every Start/End placement and
\* every sequence of draws (wall lines, passages, repair walk), End can be
\* reached from Start by 4-neighbour moves over non-wall cells.
C11_MazeLeavesEndReachable ==
    RolesWellFormed(TheGrid) =>
        \A G2 \in MazeResults : EndOf(G2) \in ReachableFrom(G2, StartOf(G2))

\* C20: generateRandomMaze never changes which cells are Start and End,
\* never changes the Start/End references and never leaves a wall on the
\* Start or End cell, whatever is drawn.
C20_MazeKeepsRoles ==
    \A G2 \in MazeResults :
        /\ StartCells(G2) = StartCells(TheGrid)
        /\ EndCells(G2) = EndCells(TheGrid)
        /\ G2.startNode = TheGrid.startNode
        /\ G2.endNode = TheGrid.endNode
        /\ \A p \in StartCells(G2) \cup EndCells(G2) : ~G2.nodes[p].isWall

\* a generated maze whose wall line runs through the row of a Start that was
\* moved off the corner: walls on both sides of Start, End moved too
C20_Witness ==
    /\ RolesWellFormed(TheGrid)
    /\ TheGrid.endNode # Ref(TheGrid.rows - 1, TheGrid.cols - 1)
    /\ \E p \in StartCells(TheGrid) :
          /\ p[2] > 0 /\ p[2] < TheGrid.cols - 1
          /\ TheGrid.nodes[<<p[1], p[2] - 1>>].isWall
          /\ TheGrid.nodes[<<p[1], p[2] + 1>>].isWall

(***************************************************************************)
(* The wall/role invariant, under SpecGrid: every mutator of Grid and Node *)
(* is one of its actions.                                                  *)
(***************************************************************************)
\* C18: in every reachable grid state no cell is both a wall and Start or
\* End, and the Start and End cells have weight 1; setAsWall and setWeight
\* on a Start/End cell change nothing, and placing Start or End on a cell
\* leaves it without wall and with weight 1.
C18_RoleCellsOpenAndLight ==
    \A p \in Pos(TheGrid) :
        LET n == TheGrid.nodes[p]
        IN  /\ (n.isStart \/ n.isEnd) =>
                  /\ ~n.isWall /\ n.weight = 1
                  /\ setAsWall(n) = n
                  /\ \A w \in Weights : setWeight(n, w) = n
            /\ ~RefIsAt(TheGrid.endNode, p[1], p[2]) =>
                  LET c == setStartNode(TheGrid, p[1], p[2]).nodes[p]
                  IN  c.isStart /\ ~c.isWall /\ c.weight = 1
            /\ ~RefIsAt(TheGrid.startNode, p[1], p[2]) =>
                  LET c == setEndNode(TheGrid, p[1], p[2]).nodes[p]
                  IN  c.isEnd /\ ~c.isWall /\ c.weight = 1

\* a grid holding as many walls as the wall tool may draw and a heavy cell,
\* with Start and End on cells next to a wall, and a wall and a heavy cell
\* that Start can be placed on
C18_Witness ==
    /\ RolesWellFormed(TheGrid)
    /\ Cardinality(WallCells(TheGrid)) = MaxWalls
    /\ \E s \in StartCells(TheGrid), w \in WallCells(TheGrid) : Adjacent(s, w)
    /\ \E e \in EndCells(TheGrid), w \in WallCells(TheGrid) : Adjacent(e, w)
    /\ \E h \in HeavyCells(TheGrid) : ~RefIsAt(TheGrid.endNode, h[1], h[2])

(***************************************************************************)
(* SpecStore: one Grid saved to and loaded from localStorage.  The grid    *)
(* starts as any layout of the bounds; localStorage starts empty or with   *)
(* an entry that saveGrid did not write.                                   *)
(***************************************************************************)
\* the record of a fresh grid of shape sh with nodes in place of its node data
ForeignData(sh, nodes) == [rows |-> sh[1], cols |-> sh[2], nodes |-> nodes]

\* entries of localStorage left by something other than saveGrid, for a
\* grid of shape sh: no data; data without nodes; data lacking node row 0;
\* node data lacking isWall and weight; a wall flag on the Start cell, on
\* the End cell
ForeignEntries(sh) ==
    LET N    == serialize(NewGrid(sh[1], sh[2])).nodes
        last == <<sh[1] - 1, sh[2] - 1>>
    IN  { [saved |-> TRUE],
          [saved |-> TRUE, data |-> [rows |-> sh[1], cols |-> sh[2]]],
          [saved |-> TRUE,
           data |-> ForeignData(sh, [p \in { q \in DOMAIN N : q[1] > 0 } |-> N[p]])],
          [saved |-> TRUE,
           data |-> ForeignData(sh, [p \in DOMAIN N |->
                        [row |-> p[1], col |-> p[2],
                         isStart |-> N[p].isStart, isEnd |-> N[p].isEnd]])],
          [saved |-> TRUE,
           data |-> ForeignData(sh, [N EXCEPT ![<<0, 0>>].isWall = TRUE])],
          [saved |-> TRUE,
           data |-> ForeignData(sh, [N EXCEPT ![last].isWall = TRUE])] }

InitStore ==
    /\ Layouts(MaxStoreWalls, MaxStoreHeavy)
    /\ alg = [a \in AlgIds |-> NewAlgorithm]
    /\ sessions = <<>>
    /\ storage \in {NoEntry} \cup UNION { ForeignEntries(sh) : sh \in Shapes }

\* PathfinderApp.confirmSaveGrid
SaveGrid ==
    /\ storage' = saveGrid(TheGrid)
    /\ UNCHANGED <<grid, alg, sessions>>

\* the Load button of a saved grid
LoadGrid == PutGrid(loadGrid(TheGrid, storage).grid)

NextStore ==
    \/ SaveGrid
    \/ LoadGrid
    \/ Resize
    \/ ClearGrid

SpecStore == InitStore /\ [][NextStore]_vars

(***************************************************************************)
(* Claims about saving and loading, under SpecStore.                       *)
(***************************************************************************)
\* C15: if loading the stored entry fails (loadGrid returns false), also
\* when the record's rows/cols differ from the grid's, the grid is exactly
\* as before the attempt: size, roles, walls, weights and both references.
C15_FailedLoadChangesNothing ==
    LET r == loadGrid(TheGrid, storage)
    IN  ~r.ok => r.grid = TheGrid

\* the stored record marks some cell isWall together with isStart or isEnd
WallOnRoleRecord(entry) ==
    /\ "data" \in DOMAIN entry
    /\ "nodes" \in DOMAIN entry.data
    /\ \E p \in DOMAIN entry.data.nodes :
          /\ OrFalse(entry.data.nodes[p], "isWall")
          /\ OrFalse(entry.data.nodes[p], "isStart") \/ OrFalse(entry.data.nodes[p], "isEnd")

\* C16: loading a record that marks a cell isWall together with isStart or
\* isEnd never leaves a cell that is both a wall and Start or End.
C16_LoadNeverWallsRole ==
    WallOnRoleRecord(storage) =>
        LET G2 == loadGrid(TheGrid, storage).grid
        IN  \A p \in Pos(G2) :
                ~(G2.nodes[p].isWall /\ (G2.nodes[p].isStart \/ G2.nodes[p].isEnd))

\* the grids a saved record is loaded into: the grid it was saved from, that
\* grid cleared, and that grid resized to each shape
LoadTargets(G) ==
    {G, clearGrid(G)} \cup { resize(G, sh[1], sh[2]) : sh \in Shapes }

\* loading into T the entry saved from G gives back G's size and G's role,
\* wall flag and weight on every cell, with startNode / endNode on a cell
\* of the loaded matrix flagged Start / End where one is flagged
RoundTrip(G, T) ==
    LET r  == loadGrid(T, saveGrid(G))
        G2 == r.grid
    IN  /\ r.ok
        /\ G2.rows = G.rows /\ G2.cols = G.cols
        /\ \A p \in Pos(G) :
              /\ G2.nodes[p].isStart = G.nodes[p].isStart
              /\ G2.nodes[p].isEnd = G.nodes[p].isEnd
              /\ G2.nodes[p].isWall = G.nodes[p].isWall
              /\ G2.nodes[p].weight = G.nodes[p].weight
        /\ StartCells(G2) # {} =>
              G2.startNode.live /\ RefPos(G2.startNode) \in StartCells(G2)
        /\ EndCells(G2) # {} =>
              G2.endNode.live /\ RefPos(G2.endNode) \in EndCells(G2)

\* C17: for every reachable grid state, deserializing its serialized record
\* into a grid of the same or of a different size gives the same rows and
\* cols and the same role, wall flag and weight on every cell, with
\* startNode / endNode on the cells flagged Start / End; the record holds
\* no annotation field.
C17_RoundTripReproducesLayout ==
    /\ \A T \in LoadTargets(TheGrid) : RoundTrip(TheGrid, T)
    /\ \A p \in Pos(TheGrid) :
          DOMAIN serialize(TheGrid).nodes[p]
              = {"row", "col", "isStart", "isEnd", "isWall", "weight"}

\* a grid of three columns with a wall and a heavy cell and Start and End
\* off the corners that was saved, resized to two columns and loaded back
C17_Witness ==
    /\ storage = saveGrid(TheGrid)
    /\ TheGrid.cols = 3
    /\ WallCells(TheGrid) # {} /\ HeavyCells(TheGrid) # {}
    /\ TheGrid.startNode = Ref(1, 1)
    /\ TheGrid.endNode = Ref(0, 1)
    /\ loadGrid(resize(TheGrid, 2, 2), storage).grid = TheGrid

(***************************************************************************)
(* Claims about randomizeStartAndEnd, resetAlgorithmStates and             *)
(* getNeighbors, under SpecGrid.                                           *)
(***************************************************************************)
\* C30: called on a grid with one Start and one End, randomizeStartAndEnd
\* moves Start to the position it drew for Start and End to the position it
\* drew for End whenever the two differ, and in every case leaves Start and
\* End on two different cells that are not walls.
C30_RandomizePlacesDraws ==
    RolesWellFormed(TheGrid) =>
        \A s \in StartDraws(TheGrid) :
            \A e \in EndDraws(TheGrid, s[1], s[2]) :
                LET G2 == randomizeStartAndEnd(TheGrid, s[1], s[2], e[1], e[2])
                IN  /\ s # e => StartCells(G2) = {s} /\ EndCells(G2) = {e}
                    /\ RolesWellFormed(G2)
                    /\ \A p \in StartCells(G2) \cup EndCells(G2) : ~G2.nodes[p].isWall

\* C27 (under SpecSearch): on either grid, resetAlgorithmStates leaves every
\* cell not explored, not on the path, with distance, g-score and f-score
\* infinite and no predecessor; it leaves every role, wall flag and weight
\* and both references as they were; applied twice it gives what it gives
\* applied once.
C27_ResetClearsAnnotationsOnly ==
    \A a \in AlgIds :
        LET G == grid[a]
            R == resetAlgorithmStates(G)
        IN  /\ R.rows = G.rows /\ R.cols = G.cols
            /\ R.startNode = G.startNode /\ R.endNode = G.endNode
            /\ \A p \in Pos(G) :
                  /\ ~R.nodes[p].isExplored /\ ~R.nodes[p].isPath
                  /\ R.nodes[p].distance = Infinity
                  /\ R.nodes[p].previousNode = NoNode
                  /\ R.nodes[p].gScore = Infinity /\ R.nodes[p].fScore = Infinity
                  /\ R.nodes[p].isStart = G.nodes[p].isStart
                  /\ R.nodes[p].isEnd = G.nodes[p].isEnd
                  /\ R.nodes[p].isWall = G.nodes[p].isWall
                  /\ R.nodes[p].weight = G.nodes[p].weight
            /\ resetAlgorithmStates(R) = R

\* both searches are over on a layout with a wall and a heavy cell, and each
\* grid holds explored cells, path cells, predecessors and finite scores
C27_Witness ==
    /\ Done(1) /\ Done(2)
    /\ WallCells(grid["dijkstra"]) # {} /\ HeavyCells(grid["dijkstra"]) # {}
    /\ \A a \in AlgIds :
          /\ \E p \in Pos(grid[a]) : grid[a].nodes[p].isExplored
          /\ \E p \in Pos(grid[a]) : grid[a].nodes[p].isPath
          /\ \E p \in Pos(grid[a]) : grid[a].nodes[p].previousNode # NoNode
    /\ \E p \in Pos(grid["dijkstra"]) : grid["dijkstra"].nodes[p].distance < Infinity
    /\ \E p \in Pos(grid["astar"]) : grid["astar"].nodes[p].fScore < Infinity

\* position q is the i-th of up, down, left, right of p
DirectionRank(p, q) ==
    IF q = <<p[1] - 1, p[2]>> THEN 1
    ELSE IF q = <<p[1] + 1, p[2]>> THEN 2
    ELSE IF q = <<p[1], p[2] - 1>> THEN 3
    ELSE IF q = <<p[1], p[2] + 1>> THEN 4
    ELSE 0

\* C28 (under SpecMaze): for every cell, getNeighbors returns exactly the
\* 4-adjacent cells inside the grid, walls included, each once, in the
\* order up, down, left, right.
C28_NeighborsInBoundsInOrder ==
    \A p \in Pos(TheGrid) :
        LET ns == getNeighbors(TheGrid, p)
        IN  /\ { ns[i] : i \in 1 .. Len(ns) } = { q \in Pos(TheGrid) : Adjacent(p, q) }
            /\ \A i, j \in 1 .. Len(ns) :
                  i < j => DirectionRank(p, ns[i]) < DirectionRank(p, ns[j])

\* a generated maze in which a cell with four neighbours has a wall above
\* and a wall to its left
C28_Witness ==
    \E p \in Pos(TheGrid) :
        /\ Len(getNeighbors(TheGrid, p)) = 4
        /\ TheGrid.nodes[<<p[1] - 1, p[2]>>].isWall
        /\ TheGrid.nodes[<<p[1], p[2] - 1>>].isWall

(***************************************************************************)
(* C25: within one session Start and End are never marked explored, every  *)
(* other popped non-wall cell is marked explored exactly once, onProgress  *)
(* fires once per such cell with 1, 2, 3, ... in order, and the            *)
(* nodesExplored of the terminal payload is the number of explored cells.  *)
(***************************************************************************)
ExploredCells(G) == { p \in Pos(G) : G.nodes[p].isExplored }

\* the cells session k has taken off its frontier so far
Popped(k) ==
    IF sessions[k].alg = "dijkstra"
    THEN Pos(GridOf(k)) \ Range(sessions[k].unvisitedNodes)
    ELSE sessions[k].closedSet

Ordinary(G, p) == ~G.nodes[p].isWall /\ ~G.nodes[p].isStart /\ ~G.nodes[p].isEnd

ExploredAccounting(k) ==
    LET G == GridOf(k)
        S == sessions[k]
    IN  /\ \A p \in StartCells(G) \cup EndCells(G) : ~G.nodes[p].isExplored
        /\ S.marked = Cardinality(ExploredCells(G))
        /\ S.progress = [n \in 1 .. S.marked |-> n]
        /\ Done(k) => Result(k).nodesExplored = Cardinality(ExploredCells(G))

\* C25, reading "popped" as popped and processed: the cell Dijkstra pops with
\* distance Infinity ends the search as "No path found" without being marked;
\* every other popped cell that is neither a wall nor Start/End is marked
\* explored exactly once, only popped cells are marked, onProgress has fired
\* with 1, 2, 3, ... and the payload counts the explored cells
C25_PoppedCellsExploredOnce ==
    \A k \in 1 .. Len(sessions) :
        LET G == GridOf(k)
            unreached(p) == sessions[k].alg = "dijkstra" /\ G.nodes[p].distance = Infinity
        IN  /\ ExploredAccounting(k)
            /\ \A p \in Popped(k) :
                   Ordinary(G, p) /\ ~unreached(p) => p \in ExploredCells(G)
            /\ ExploredCells(G) \subseteq Popped(k)

(***************************************************************************)
(* C22: a search session, whatever its outcome, changes only annotation    *)
(* fields: no step of findPath, of stop or of a resumed session changes a  *)
(* cell's role, wall flag or weight, the size of the grid, or the          *)
(* startNode/endNode references.                                           *)
(***************************************************************************)
LayoutOf(G) ==
    [rows |-> G.rows, cols |-> G.cols, startNode |-> G.startNode, endNode |-> G.endNode,
     cells |-> [p \in Pos(G) |-> <<G.nodes[p].isStart, G.nodes[p].isEnd,
                                   G.nodes[p].isWall, G.nodes[p].weight>>]]

C22_SessionKeepsLayout ==
    [][\A a \in AlgIds : LayoutOf(grid'[a]) = LayoutOf(grid[a])]_vars

\* a cancelled and a successful session have ended on a grid with a wall,
\* leaving explored and path marks
C22_Witness ==
    /\ \E k \in 1 .. Len(sessions) : Done(k) /\ Result(k).message = "Stopped"
    /\ \E k \in 1 .. Len(sessions) :
           /\ Done(k) /\ Result(k).success
           /\ WallCells(GridOf(k)) # {}
           /\ ExploredCells(GridOf(k)) # {}
           /\ \E p \in Pos(GridOf(k)) : GridOf(k).nodes[p].isPath

(***************************************************************************)
(* SpecOpen: the two sessions of SpecSearch on a 3 x 3 grid, Start and End *)
(* on any two cells, with at most one wall and at most one cell of weight  *)
(* 5.                                                                      *)
(***************************************************************************)
OpenShape == <<3, 3>>

MaxOpenWalls == 1    \* walls on the 3 x 3 grid
MaxOpenHeavy == 1    \* cells of weight 5 on the 3 x 3 grid

OpenLayouts ==
    LET P == Positions(OpenShape[1], OpenShape[2])
    IN  \E s \in P :
          \E e \in P \ {s} :
            \E W \in Bounded(P \ {s, e}, MaxOpenWalls) :
              \E H \in Bounded(P \ ({s, e} \cup W), MaxOpenHeavy) :
                grid = [a \in AlgIds |->
                          LayoutGrid(OpenShape[1], OpenShape[2], s, e, W, [p \in H |-> 5])]

InitOpen ==
    /\ OpenLayouts
    /\ alg = [a \in AlgIds |-> NewAlgorithm]
    /\ sessions = <<>>
    /\ storage = NoEntry

SpecOpen == InitOpen /\ [][NextSearch]_vars

(***************************************************************************)
(* C29: on a grid with no walls and every weight 1 a session ends with     *)
(* success and a pathLength of the Manhattan distance between Start and    *)
(* End plus 1; on the 3 x 3 grid with Start (0,0) and End (2,2) that is 5. *)
(***************************************************************************)
C29_OpenGridPathLength ==
    \A k \in 1 .. Len(sessions) :
        LET G == GridOf(k)
        IN  Done(k) /\ WallCells(G) = {} /\ HeavyCells(G) = {} =>
                /\ Result(k).success
                /\ Result(k).pathLength = manhattanDistanceTo(StartOf(G), EndOf(G)) + 1
                /\ StartOf(G) = <<0, 0>> /\ EndOf(G) = <<2, 2>> => Result(k).pathLength = 5

\* both sessions have ended on the open 3 x 3 grid, corner to corner
C29_Witness ==
    /\ Done(1) /\ Done(2) /\ sessions[1].alg # sessions[2].alg
    /\ \A k \in {1, 2} :
           /\ WallCells(GridOf(k)) = {} /\ HeavyCells(GridOf(k)) = {}
           /\ GridOf(k).rows = 3 /\ GridOf(k).cols = 3
           /\ StartOf(GridOf(k)) = <<0, 0>> /\ EndOf(GridOf(k)) = <<2, 2>>
           /\ Result(k).pathLength = 5

(***************************************************************************)
(* SpecPair: PathfinderApp.findPaths starts the Dijkstra session and the   *)
(* A* session in one call (the arguments of Promise.all, each running up   *)
(* to its first delay); their delays then elapse in any order.             *)
(***************************************************************************)
MaxPairWalls == 1    \* walls of a layout searched by both sessions at once
MaxPairHeavy == 1    \* heavy cells of such a layout

InitPair ==
    /\ Layouts(MaxPairWalls, MaxPairHeavy)
    /\ alg = [a \in AlgIds |-> NewAlgorithm]
    /\ sessions = <<>>
    /\ storage = NoEntry

FindPaths ==
    /\ sessions = <<>>
    /\ LET d  == findPath("dijkstra", grid[AlgorithmGrid("dijkstra")], alg["dijkstra"])
           g1 == [grid EXCEPT ![AlgorithmGrid("dijkstra")] = d.G]
           s  == findPath("astar", g1[AlgorithmGrid("astar")], alg["astar"])
       IN  /\ grid' = [g1 EXCEPT ![AlgorithmGrid("astar")] = s.G]
           /\ alg' = [alg EXCEPT !["dijkstra"] = d.A, !["astar"] = s.A]
           /\ sessions' = <<d.S, s.S>>
           /\ UNCHANGED storage

NextPair ==
    \/ FindPaths
    \/ DelayElapsed

SpecPair == InitPair /\ [][NextPair]_vars

(***************************************************************************)
(* C24: with the Dijkstra and the A* session running at once, each on its  *)
(* own grid of the same layout, every interleaving of their steps gives    *)
(* each session the result it has when run alone, and no session writes    *)
(* to the other's grid: at every moment a session, its instance and its    *)
(* grid are in a state of the run the session makes with no other session  *)
(* around.                                                                 *)
(***************************************************************************)
\* the step a session takes when its pending delay elapses
AfterDelay(st) ==
    IF st.S.pc = "animate" THEN AnimateAfterDelay(st)
    ELSE IF st.S.alg = "dijkstra" THEN DijkstraAfterDelay(st)
    ELSE AStarAfterDelay(st)

\* the states a session passes through when nothing else is running, from
\* state st on, in order
RECURSIVE RunAlone(_)
RunAlone(st) ==
    IF st.S.pc \in {"delay", "animate"} THEN <<st>> \o RunAlone(AfterDelay(st)) ELSE <<st>>

\* the run of algorithm a alone on the layout of grid G
Alone(a, G) == RunAlone(findPath(a, resetAlgorithmStates(G), NewAlgorithm))

\* the two grids agree cell by cell, annotations included
SameGrid(G1, G2) ==
    /\ G1.rows = G2.rows /\ G1.cols = G2.cols
    /\ G1.startNode = G2.startNode /\ G1.endNode = G2.endNode
    /\ \A p \in Pos(G1) : G1.nodes[p] = G2.nodes[p]

C24_InterleavingKeepsResults ==
    \A k \in 1 .. Len(sessions) :
        LET a   == sessions[k].alg
            run == Alone(a, GridOf(k))
        IN  /\ \E j \in 1 .. Len(run) :
                   /\ SameGrid(run[j].G, GridOf(k))
                   /\ run[j].A = alg[a]
                   /\ run[j].S = sessions[k]
            /\ Done(k) => run[Len(run)].S.returned = Result(k)

\* both sessions have ended after their steps alternated: each explored two
\* cells or more, and one of them found a path
C24_Witness ==
    /\ Len(sessions) = 2 /\ Done(1) /\ Done(2)
    /\ sessions[1].alg = "dijkstra" /\ sessions[2].alg = "astar"
    /\ sessions[1].marked >= 2 /\ sessions[2].marked >= 2
    /\ Result(1).success /\ Result(2).success
    /\ grid["dijkstra"] # grid["astar"]

(***************************************************************************)
(* SpecRepeat: findPath() called again on one algorithm instance once its  *)
(* earlier session has ended (the Find Path button, pressed again on the   *)
(* same layout); no session is stopped.                                    *)
(***************************************************************************)
MaxRepeatWalls == 2    \* walls of a layout searched twice
MaxRepeatHeavy == 1    \* heavy cells of such a layout

InitRepeat ==
    /\ Layouts(MaxRepeatWalls, MaxRepeatHeavy)
    /\ alg = [a \in AlgIds |-> NewAlgorithm]
    /\ sessions = <<>>
    /\ storage = NoEntry

FindPathAgain ==
    \E a \in AlgIds :
        /\ Instance(a)
        /\ Len(sessions) < MaxSessions
        /\ \A k \in 1 .. Len(sessions) : Done(k)
        /\ FindPath(a)

NextRepeat ==
    \/ FindPathAgain
    \/ DelayElapsed

SpecRepeat == InitRepeat /\ [][NextRepeat]_vars

(***************************************************************************)
(* C23: two uncancelled searches by one algorithm on one layout pop the    *)
(* same cells in the same order and report the same nodesExplored,         *)
(* pathLength and path, whatever annotations the earlier search left: a    *)
(* session is at every step in a state of the run made from the layout     *)
(* with blank annotations, and two ended sessions hold the same record.    *)
(***************************************************************************)
C23_RepeatedSearchIsIdentical ==
    /\ \A k \in 1 .. Len(sessions) :
           (\A j \in 1 .. Len(sessions) : j # k => Done(j)) =>
               LET a   == sessions[k].alg
                   run == Alone(a, GridOf(k))
               IN  \E j \in 1 .. Len(run) :
                       /\ SameGrid(run[j].G, GridOf(k))
                       /\ run[j].A = alg[a]
                       /\ run[j].S = sessions[k]
    /\ \A j, k \in 1 .. Len(sessions) :
           Done(j) /\ Done(k) /\ sessions[j].alg = sessions[k].alg =>
               /\ Result(j) = Result(k)
               /\ sessions[j].visitedNodes = sessions[k].visitedNodes
               /\ sessions[j].closedSet = sessions[k].closedSet
               /\ sessions[j].progress = sessions[k].progress
               /\ sessions[j].completed = sessions[k].completed

\* the second search has started on the explored and path marks, distances
\* and predecessors of the first, and has found the same path
C23_Witness ==
    /\ Len(sessions) = 2 /\ Done(1) /\ Done(2)
    /\ Result(1).success /\ Result(2).success /\ Len(Result(2).path) >= 3
    /\ sessions[2].marked >= 2
    /\ HeavyCells(GridOf(2)) # {} /\ WallCells(GridOf(2)) # {}

(***************************************************************************)
(* SpecLive: the calls of SpecStop, with every pending delay elapsing in   *)
(* the end: the browser fires each setTimeout that stays pending.  The     *)
(* condition on session k is WF_vars(DelayElapses(k)) written out,         *)
(*     []<>~ENABLED <<DelayElapses(k)>>_vars \/ []<><<DelayElapses(k)>>_vars *)
(* with ENABLED <<DelayElapses(k)>>_vars replaced by the guard of Timer(k),*)
(* PendingDelay(k): under that guard Timer(k) defines grid', alg' and      *)
(* sessions' and changes sessions[k] (its pc, marked or i).                *)
(***************************************************************************)
MaxLiveWalls == 2    \* walls of a layout in SpecLive

InitLive ==
    /\ Layouts(MaxLiveWalls, 0)
    /\ alg = [a \in AlgIds |-> NewAlgorithm]
    /\ sessions = <<>>
    /\ storage = NoEntry

\* session k waits in a delay that can elapse
PendingDelay(k) ==
    k <= Len(sessions) /\ NoTaskHangs /\ sessions[k].pc \in {"delay", "animate"}

\* the pending delay of session k elapses
DelayElapses(k) == k <= Len(sessions) /\ Timer(k)

DelaysElapse ==
    \A k \in 1 .. MaxSessions : []<>(~PendingDelay(k)) \/ []<><<DelayElapses(k)>>_vars

SpecLive == InitLive /\ [][NextStop]_vars /\ DelaysElapse

(***************************************************************************)
(* C26: every session that starts reaches a terminal state (a path found,  *)
(* no path found, or stopped), with isRunning false when it gets there,    *)
(* provided each pending delay elapses in the end.                         *)
(***************************************************************************)
Started(k) == k <= Len(sessions)

Terminal(k) == Done(k) /\ ~alg[sessions[k].alg].isRunning

ShrinkShapes == {<<2, 2>>, <<2, 4>>}

InitShrink ==
    /\ grid = [a \in AlgIds |-> NewGrid(2, 4)]
    /\ alg = [a \in AlgIds |-> NewAlgorithm]
    /\ sessions = <<>>
    /\ storage = NoEntry

ResizeShrink == \E s \in ShrinkShapes : PutGrid(resize(TheGrid, s[1], s[2]))

NextShrink ==
    \/ SetStartNode
    \/ SetEndNode
    \/ ResizeShrink
    \/ GenerateRandomMaze

SpecShrink == InitShrink /\ [][NextShrink]_vars

(***************************************************************************)
(* C21: generateRandomMaze terminates on every grid of at least 2 x 2 for  *)
(* every sequence of draws: each recursive call of _recursiveDivision is   *)
(* on a region strictly smaller than its parent's and a region with a      *)
(* dimension below 3 recurses no further, and the repair walk takes at     *)
(* most 2 x rows x cols steps, each of them to a position inside the grid. *)
(***************************************************************************)
\* the regions <<row, col, height, width>> a call of _recursiveDivision
\* recurses into, over the draws of its wall line
subRegions(row, col, height, width, horizontal) ==
    IF height < 3 \/ width < 3 THEN {}
    ELSE IF horizontal
    THEN UNION { { <<row, col, wy - row + 1, width>>,
                   <<wy + 1, col, row + height - (wy + 1), width>> } :
                 wy \in row .. row + height - 3 }
    ELSE UNION { { <<row, col, height, wx - col + 1>>,
                   <<row, wx + 1, height, col + width - (wx + 1)>> } :
                 wx \in col .. col + width - 3 }

\* the calls <<row, col, height, width, horizontal>> made below a call, itself
\* included
RECURSIVE divisionCalls(_, _, _, _, _)
divisionCalls(row, col, height, width, horizontal) ==
    {<<row, col, height, width, horizontal>>} \cup
    UNION { divisionCalls(r[1], r[2], r[3], r[4], ~horizontal) :
            r \in subRegions(row, col, height, width, horizontal) }

\* the positions (r, c) the random walk can take in at most `left` more
\* iterations, from the positions R on; e is End's position
RECURSIVE walkPositions(_, _, _, _)
walkPositions(G, R, e, left) ==
    LET more == UNION { walkOptions(G, p, e) : p \in R \ {e} } \ R
    IN  IF left = 0 \/ more = {} THEN R ELSE walkPositions(G, R \cup more, e, left - 1)

\* the grids _ensureRandomPathExists can be called on
Divided(G) ==
    { buildWalls(clearCells(G), W) : W \in recursiveDivision(0, 0, G.rows, G.cols, TRUE) }

C21_MazeGenerationBounded ==
    /\ \A c \in divisionCalls(0, 0, TheGrid.rows, TheGrid.cols, TRUE) :
           \A r \in subRegions(c[1], c[2], c[3], c[4], c[5]) :
               /\ r[3] * r[4] < c[3] * c[4]
               /\ r[3] >= 1 /\ r[4] >= 1
    /\ \A G1 \in Divided(TheGrid) :
           ~pathFound(G1) =>
               walkPositions(G1, {RefPos(G1.startNode)}, RefPos(G1.endNode),
                             G1.rows * G1.cols * 2) \subseteq Pos(G1)

(***************************************************************************)
(* C39: the connectivity repair only removes walls: the walls after        *)
(* _ensureRandomPathExists are among the walls before it, no cell's weight *)
(* or role changes, and when End is reachable from Start after the         *)
(* division the repair changes nothing.                                    *)
(***************************************************************************)
\* the grids the repair can leave from the divided grid G1
Repaired(G1) == ensureRandomPathExists(G1, randomWalk(G1))

C39_RepairOnlyRemovesWalls ==
    Blank(TheGrid) =>
        \A G1 \in Divided(TheGrid) :
            \A G2 \in Repaired(G1) :
                /\ WallCells(G2) \subseteq WallCells(G1)
                /\ LayoutOf([G2 EXCEPT !.nodes = [p \in Pos(G2) |->
                                [G2.nodes[p] EXCEPT !.isWall = G1.nodes[p].isWall]]])
                       = LayoutOf(G1)
                /\ EndOf(G1) \in Closure(G1, {StartOf(G1)}) => SameGrid(G2, G1)

\* a division that cuts End off, and a repair walk that takes a wall down
C39_Witness ==
    /\ Blank(TheGrid)
    /\ \E G1 \in Divided(TheGrid) :
           /\ EndOf(G1) \notin Closure(G1, {StartOf(G1)})
           /\ \E G2 \in Repaired(G1) :
                  WallCells(G2) # WallCells(G1) /\ WallCells(G2) \subseteq WallCells(G1)

(***************************************************************************)
(* C37: throughout an A* session the open set holds no wall, no duplicate  *)
(* and no cell of the closed set; every cell is popped at most once; every *)
(* cell of the open set has a finite g-score and an f-score equal to its   *)
(* g-score plus its Manhattan distance to End; Start has g-score 0.        *)
(***************************************************************************)
AStarSessions == { k \in 1 .. Len(sessions) : sessions[k].alg = "astar" }

\* the pops of session k so far: Start, one per explored cell, and End once
\* it is the current node
Pops(k) ==
    1 + sessions[k].marked
      + (IF IsNode(sessions[k].endNode, sessions[k].currentNode) THEN 1 ELSE 0)

C37_OpenSetWellFormed ==
    \A k \in AStarSessions :
        LET G == GridOf(k)
            S == sessions[k]
        IN  /\ \A j \in 1 .. Len(S.openSet) :
                   LET p == S.openSet[j]
                   IN  /\ ~G.nodes[p].isWall
                       /\ p \notin S.closedSet
                       /\ \A i \in 1 .. Len(S.openSet) : S.openSet[i] = p => i = j
                       /\ G.nodes[p].gScore < Infinity
                       /\ G.nodes[p].fScore
                              = G.nodes[p].gScore + manhattanDistanceTo(p, EndOf(G))
            /\ Cardinality(S.closedSet) = Pops(k)
            /\ G.nodes[StartOf(G)].gScore = 0

\* an A* session that has skipped a wall next to a closed cell, has improved
\* a cell while it was in the open set, and still holds open cells
C37_Witness ==
    \E k \in AStarSessions :
        LET G == GridOf(k)
            S == sessions[k]
        IN  /\ S.openSet # <<>>
            /\ S.relaxed > Len(S.openSet) + Cardinality(S.closedSet) - 1
            /\ \E c \in S.closedSet : \E w \in WallCells(G) : Adjacent(c, w)

(***************************************************************************)
(* C35: in both algorithms a step changes the recorded cost or the         *)
(* predecessor of a cell only if the cell is a neighbour inside the grid   *)
(* of a popped cell, no wall, not finalized, and the popped cell's cost    *)
(* plus the cell's weight is strictly less than the cost recorded before;  *)
(* so a recorded cost never increases during a session and a finalized     *)
(* cell's cost and predecessor never change.                               *)
(***************************************************************************)
\* the cost an algorithm records on a cell
CostOf(a, G, p) == IF a = "dijkstra" THEN G.nodes[p].distance ELSE G.nodes[p].gScore

\* the finalized cells of a session S on its grid G
PoppedOf(S, G) ==
    IF S.alg = "dijkstra" THEN Pos(G) \ Range(S.unvisitedNodes) ELSE S.closedSet

\* the grid a new session starts from: annotations reset, Start at cost 0
SessionStart(a, G) ==
    LET R == resetAlgorithmStates(G)
    IN  [R EXCEPT !.nodes[StartOf(G)] =
            IF a = "dijkstra" THEN [@ EXCEPT !.distance = 0] ELSE [@ EXCEPT !.gScore = 0]]

RelaxationStep(S2, G1, G2, finalized) ==
    \A p \in Pos(G2) :
        LET a  == S2.alg
            c1 == CostOf(a, G1, p)
            c2 == CostOf(a, G2, p)
            q  == G2.nodes[p].previousNode
        IN  /\ c2 <= c1
            /\ (c2 # c1 \/ q # G1.nodes[p].previousNode) =>
                   /\ ~G2.nodes[p].isWall
                   /\ p \notin finalized
                   /\ q \in PoppedOf(S2, G2)
                   /\ Adjacent(q, p)
                   /\ c2 = CostOf(a, G2, q) + getMovementCost(G2.nodes[p])
                   /\ c2 < c1

C35_RelaxationIsGuarded ==
    [][\A k \in 1 .. Len(sessions') :
           LET S2 == sessions'[k]
               a  == S2.alg
           IN  IF k <= Len(sessions)
               THEN RelaxationStep(S2, grid[a], grid'[a], PoppedOf(sessions[k], grid[a]))
               ELSE RelaxationStep(S2, SessionStart(a, grid[a]), grid'[a], {})]_vars

\* an A* session that improved a cell of its open set, next to a finalized
\* cell and a wall that were left alone
C35_Witness ==
    \E k \in AStarSessions :
        LET G == GridOf(k)
            S == sessions[k]
        IN  /\ S.relaxed > Len(S.openSet) + Cardinality(S.closedSet) - 1
            /\ \E c \in S.closedSet :
                   /\ \E w \in WallCells(G) : Adjacent(c, w)
                   /\ \E d \in S.closedSet : Adjacent(c, d)

(***************************************************************************)
(* C36: at every point of a session the predecessor links from any cell    *)
(* with a finite recorded cost lead to Start in finitely many links, the   *)
(* recorded cost strictly decreases along each link, and Start never has a *)
(* predecessor; so path reconstruction terminates and never loops.         *)
(***************************************************************************)
C36_PredecessorChainsReachStart ==
    /\ NoTaskHangs
    /\ \A k \in 1 .. Len(sessions) :
           LET G == GridOf(k)
               a == sessions[k].alg
           IN  /\ G.nodes[StartOf(G)].previousNode = NoNode
               /\ \A p \in Pos(G) :
                      CostOf(a, G, p) < Infinity =>
                          LET q == G.nodes[p].previousNode
                          IN  /\ p # StartOf(G) =>
                                     q # NoNode /\ CostOf(a, G, q) < CostOf(a, G, p)
                              /\ ~LinksCycle(G, p, {})
                              /\ Head(reconstructPath(G, p)) = StartOf(G)

\* a session that found a path of four cells or more, on a grid where some
\* reached cell is three links or more away from Start
C36_Witness ==
    \E k \in 1 .. Len(sessions) :
        LET G == GridOf(k)
        IN  /\ sessions[k].pc = "animate"
            /\ Len(sessions[k].path) >= 4
            /\ \E p \in Pos(G) \ {EndOf(G)} :
                   /\ CostOf(sessions[k].alg, G, p) < Infinity
                   /\ Len(reconstructPath(G, p)) >= 4

(***************************************************************************)
(* C32: in Dijkstra every popped cell has the minimum distance among the   *)
(* cells not yet visited, the popped distances are non-decreasing, and the *)
(* search ends with "No path found" exactly when that minimum is infinite  *)
(* (or the popped cell is a wall); no unvisited cell that is no wall is    *)
(* then reachable from Start.                                              *)
(***************************************************************************)
DijkstraSessions == { k \in 1 .. Len(sessions) : sessions[k].alg = "dijkstra" }

\* the cells session k has popped, in the order of their pops
PopOrder(k) ==
    LET S == sessions[k]
    IN  IF S.currentNode = NoNode \/ S.currentNode \in Range(S.visitedNodes)
        THEN S.visitedNodes ELSE Append(S.visitedNodes, S.currentNode)

Exhausted(k) == Done(k) /\ Result(k).message = "No path found"

C32_PopsMinimumDistance ==
    \A k \in DijkstraSessions :
        LET G   == GridOf(k)
            S   == sessions[k]
            cur == S.currentNode
            d   == [p \in Pos(G) |-> G.nodes[p].distance]
            pop == PopOrder(k)
        IN  /\ cur # NoNode
            /\ \A u \in Range(S.unvisitedNodes) : d[cur] <= d[u]
            /\ \A i \in 1 .. Len(pop) : \A j \in i .. Len(pop) : d[pop[i]] <= d[pop[j]]
            /\ Exhausted(k) <=> (d[cur] = Infinity \/ G.nodes[cur].isWall)
            /\ Exhausted(k) =>
                   (Range(S.unvisitedNodes) \cup {cur}) \cap ReachableFrom(G, StartOf(G)) = {}

\* a Dijkstra session that popped four cells or more at two distances or
\* more and then ran out of reachable cells, with cells left unvisited
C32_Witness ==
    \E k \in DijkstraSessions :
        LET G == GridOf(k)
            S == sessions[k]
        IN  /\ Exhausted(k)
            /\ Len(S.visitedNodes) >= 3
            /\ \E p \in Range(S.visitedNodes) : G.nodes[p].distance >= 2
            /\ S.unvisitedNodes # <<>>

(***************************************************************************)
(* C33: in Dijkstra, whenever several unvisited cells share the minimum    *)
(* distance, the one popped is the earliest in row-major order, on every   *)
(* grid, weighted ones included.                                           *)
(***************************************************************************)
RowMajorBefore(p, q) == p[1] < q[1] \/ (p[1] = q[1] /\ p[2] <= q[2])

C33_TiesPoppedRowMajor ==
    \A k \in DijkstraSessions :
        LET G   == GridOf(k)
            S   == sessions[k]
            cur == S.currentNode
        IN  \A u \in Range(S.unvisitedNodes) :
                G.nodes[u].distance = G.nodes[cur].distance => RowMajorBefore(cur, u)

(***************************************************************************)
(* C33, amended: the sort is stable and works on the array the earlier     *)
(* sorts have left, so among the unvisited cells that share the minimum    *)
(* distance the one popped is the one that stood first in the frontier     *)
(* before the sort; that is the row-major order only among cells that      *)
(* have not been relaxed apart (the frontier of a new session).            *)
(***************************************************************************)
\* the first element of the array seq among those with the least key
FirstMinimum(seq, key) ==
    LET j == CHOOSE i \in 1 .. Len(seq) :
                 /\ \A h \in 1 .. Len(seq) : key[seq[i]] <= key[seq[h]]
                 /\ \A h \in 1 .. i - 1 : key[seq[h]] > key[seq[i]]
    IN  seq[j]

\* the frontier of a new session once Start has been popped
FrontierAfterStart(G) == SelectSeq(getAllNodes(G), LAMBDA p : p # StartOf(G))

C33_TiesPoppedInFrontierOrder ==
    [][\A k \in 1 .. Len(sessions') :
           LET S2  == sessions'[k]
               G2  == grid'[S2.alg]
               d2  == [p \in Pos(G2) |-> G2.nodes[p].distance]
               old == IF k <= Len(sessions) THEN sessions[k].unvisitedNodes
                      ELSE FrontierAfterStart(G2)
           IN  (S2.alg = "dijkstra" /\ Len(S2.unvisitedNodes) < Len(old)) =>
                   /\ S2.currentNode = FirstMinimum(old, d2)
                   /\ (k > Len(sessions) /\ S2.relaxed = 0) =>
                          \A u \in Range(S2.unvisitedNodes) : RowMajorBefore(S2.currentNode, u)]_vars

\* a pop among tied cells that takes a cell later in row-major order than
\* another cell of the tie
C33_Witness ==
    \E k \in DijkstraSessions :
        LET G   == GridOf(k)
            S   == sessions[k]
            cur == S.currentNode
        IN  /\ S.pc = "delay"
            /\ \E u \in Range(S.unvisitedNodes) :
                   /\ G.nodes[u].distance = G.nodes[cur].distance
                   /\ ~RowMajorBefore(cur, u)

(***************************************************************************)
(* C34: in A* every popped cell has the minimum f-score among the cells of *)
(* the open set, and among the cells tied on f-score the one that was      *)
(* pushed into the open set earliest is popped first, even when the        *)
(* f-score of a tied cell was lowered after its insertion.                 *)
(***************************************************************************)
\* the position of cell p in the history of the pushes
PushRank(S, p) == CHOOSE i \in 1 .. Len(S.pushed) : S.pushed[i] = p

C34_TiesPoppedInInsertionOrder ==
    \A k \in AStarSessions :
        LET G   == GridOf(k)
            S   == sessions[k]
            cur == S.currentNode
        IN  \A u \in Range(S.openSet) :
                /\ G.nodes[cur].fScore <= G.nodes[u].fScore
                /\ G.nodes[u].fScore = G.nodes[cur].fScore =>
                       PushRank(S, cur) < PushRank(S, u)

(***************************************************************************)
(* C34, amended: every popped cell has the minimum f-score of the open     *)
(* set, and among the cells tied on f-score the one popped is the one that *)
(* stood first in the open-set array before the sort (the array as the     *)
(* earlier sorts left it, the new cells pushed behind).  That is the       *)
(* insertion order as long as no f-score has been lowered after insertion. *)
(***************************************************************************)
C34_TiesPoppedInOpenSetOrder ==
    [][\A k \in 1 .. Len(sessions') :
           LET S2  == sessions'[k]
               G2  == grid'[S2.alg]
               f2  == [p \in Pos(G2) |-> G2.nodes[p].fScore]
               cur == S2.currentNode
               old == IF k <= Len(sessions)
                      THEN sessions[k].openSet
                               \o SubSeq(S2.pushed, Len(sessions[k].pushed) + 1, Len(S2.pushed))
                      ELSE Tail(S2.pushed)
           IN  (S2.alg = "astar" /\ Len(S2.openSet) < Len(old)) =>
                   /\ \A u \in Range(S2.openSet) : f2[cur] <= f2[u]
                   /\ cur = FirstMinimum(old, f2)
                   /\ S2.relaxed = Len(S2.pushed) - 1 =>
                          \A u \in Range(S2.openSet) :
                              f2[u] = f2[cur] => PushRank(S2, cur) < PushRank(S2, u)]_vars

\* a pop among tied cells that takes a cell pushed later than another cell of
\* the tie, whose f-score was lowered while it was in the open set
C34_Witness ==
    \E k \in AStarSessions :
        LET G   == GridOf(k)
            S   == sessions[k]
            cur == S.currentNode
        IN  /\ S.relaxed > Len(S.pushed) - 1
            /\ \E u \in Range(S.openSet) :
                   /\ G.nodes[u].fScore = G.nodes[cur].fScore
                   /\ PushRank(S, u) < PushRank(S, cur)

(***************************************************************************)
(* C38: a session that has popped End completes with success = true, the   *)
(* full path and pathLength equal to the number of cells of the path, also *)
(* when stop() is called while the path is being animated; the stop only   *)
(* leaves the remaining path cells unmarked, and Start and End never get   *)
(* the path flag.                                                          *)
(***************************************************************************)
\* session k has popped End and built its path
EndPopped(k) == sessions[k].path # <<>>

\* the cells of the path between Start and End
Interior(path) == { path[j] : j \in 2 .. Len(path) - 1 }

C38_StopDuringAnimationKeepsResult ==
    \A k \in 1 .. Len(sessions) :
        LET G == GridOf(k)
            S == sessions[k]
        IN  /\ \A p \in StartCells(G) \cup EndCells(G) : ~G.nodes[p].isPath
            /\ EndPopped(k) =>
                   /\ Head(S.path) = StartOf(G)
                   /\ S.path[Len(S.path)] = EndOf(G)
                   /\ { p \in Pos(G) : G.nodes[p].isPath } \subseteq Interior(S.path)
                   /\ Done(k) =>
                          /\ Result(k).success
                          /\ Result(k).path = S.path
                          /\ Result(k).pathLength = Len(S.path)
                          /\ S.completed = <<Result(k)>>

(***************************************************************************)
(* SpecApp: the handlers of PathfinderApp that edit the layout, on its two *)
(* grids, no search running (the handlers stop a running search first).    *)
(* Both grids are square, of the size of the grid size selector or of its  *)
(* custom input (2 at least).  currentGridSize is set by initializeGrids   *)
(* and resizeGrids only, together with the size of astarGrid, which no     *)
(* other handler resizes: it is the number of rows of astarGrid.           *)
(***************************************************************************)
AppSizes == {2, 3}

MaxAppWalls == 1

MaxAppHeavy == 2

\* the weights of the weight selector and of allowedWeights that are drawn
AppWeights == {1, 5}

currentGridSize == grid["astar"].rows

\* Grid.getNode(row, col) as a reference: null when out of bounds
getNode(G, row, col) ==
    IF row >= 0 /\ row < G.rows /\ col >= 0 /\ col < G.cols THEN Ref(row, col) ELSE NoRef

\* Grid.handleNodeClick for the active tool and the selected weight
handleNodeClick(G, tool, weight, p) ==
    CASE tool = "start"  -> setStartNode(G, p[1], p[2])
      [] tool = "end"    -> setEndNode(G, p[1], p[2])
      [] tool = "wall"   -> [G EXCEPT !.nodes[p] = setAsWall(@)]
      [] tool = "weight" -> [G EXCEPT !.nodes[p] = setWeight(@, weight)]
      [] tool = "eraser" -> [G EXCEPT !.nodes[p] = clear(@)]

Tools == {"start", "end", "wall", "weight", "eraser"}

\* syncNodeToOtherGrid(sourceNode, targetGrid), sourceNode at p of grid S
syncNodeToOtherGrid(S, T, p) ==
    LET n  == S.nodes[p]
        T1 == [T EXCEPT !.nodes = [q \in Pos(T) |->
                  [T.nodes[q] EXCEPT !.isStart = IF n.isStart THEN FALSE ELSE @,
                                     !.isEnd = IF n.isEnd THEN FALSE ELSE @]]]
    IN  IF getNode(T, p[1], p[2]) = NoRef THEN T1
        ELSE [T1 EXCEPT !.nodes[p].isStart = n.isStart,
                        !.nodes[p].isEnd = n.isEnd,
                        !.nodes[p].isWall = n.isWall,
                        !.nodes[p].weight = n.weight,
                        !.startNode = IF n.isStart THEN Ref(p[1], p[2]) ELSE @,
                        !.endNode = IF n.isEnd THEN Ref(p[1], p[2]) ELSE @]

\* syncGrids: the A* grid it leaves.  Its loops run over currentGridSize
\* rows and columns of astarGrid and copy where dijkstraGrid has a node.
syncGrids(D, A) ==
    LET copied == [q \in Pos(A) |->
                      IF getNode(D, q[1], q[2]) # NoRef
                      THEN [A.nodes[q] EXCEPT !.isStart = D.nodes[q].isStart,
                                              !.isEnd = D.nodes[q].isEnd,
                                              !.isWall = D.nodes[q].isWall,
                                              !.weight = D.nodes[q].weight]
                      ELSE [A.nodes[q] EXCEPT !.isStart = FALSE, !.isEnd = FALSE]]
    IN  [A EXCEPT !.nodes = copied,
                  !.startNode = getNode(A, D.startNode.row, D.startNode.col),
                  !.endNode = getNode(A, D.endNode.row, D.endNode.col)]

\* the two grids after a handler that edits dijkstraGrid and calls syncGrids
Synced(D, A) == [a \in AlgIds |-> IF a = "dijkstra" THEN D ELSE syncGrids(D, A)]

\* the handlers are followed as long as dijkstraGrid has the size of the
\* selector
SameSize == grid["dijkstra"].rows = currentGridSize /\ grid["dijkstra"].cols = currentGridSize

PutGrids(g) ==
    /\ grid' = g
    /\ UNCHANGED <<alg, sessions, storage>>

\* initializeGrids
InitApp ==
    /\ \E n \in AppSizes : grid = Synced(NewGrid(n, n), NewGrid(n, n))
    /\ alg = [a \in AlgIds |-> NewAlgorithm]
    /\ sessions = <<>>
    /\ storage = NoEntry

WithinAppBounds(G) ==
    /\ Cardinality(WallCells(G)) <= MaxAppWalls
    /\ Cardinality(HeavyCells(G)) <= MaxAppHeavy

\* the click handlers setupGridSynchronization installs on the two grids
\* the cells the role tools and the random draws of Start and End are tried
\* on: the corners of the grid
Corners(G) == { p \in Pos(G) : p[1] \in {0, G.rows - 1} /\ p[2] \in {0, G.cols - 1} }

ClickOn(a, b) ==
    \E tool \in Tools, w \in AppWeights, p \in Pos(grid[a]) :
        LET X == handleNodeClick(resetAlgorithmStates(grid[a]), tool, w, p)
        IN  /\ tool # "weight" => w = 1
            /\ tool \in {"wall", "weight"} => WithinAppBounds(X)
            /\ tool \in {"start", "end"} => p \in Corners(grid[a])
            /\ PutGrids([c \in AlgIds |->
                   IF c = a THEN X
                   ELSE syncNodeToOtherGrid(X, resetAlgorithmStates(grid[b]), p)])

ClickOnDijkstraGrid == SameSize /\ ClickOn("dijkstra", "astar")

ClickOnAStarGrid == SameSize /\ ClickOn("astar", "dijkstra")

ClearGrids == SameSize /\ PutGrids(Synced(clearGrid(grid["dijkstra"]), clearGrid(grid["astar"])))

ResizeGrids ==
    \E n \in AppSizes :
        SameSize /\ PutGrids(Synced(resize(grid["dijkstra"], n, n), resize(grid["astar"], n, n)))

\* confirmSaveGrid; grids are saved as new Grid, resize or clearGrid leave them
ConfirmSaveGrid ==
    /\ SameSize
    /\ Blank(TheGrid)
    /\ RefIsAt(TheGrid.startNode, 0, 0)
    /\ RefIsAt(TheGrid.endNode, TheGrid.rows - 1, TheGrid.cols - 1)
    /\ storage' = saveGrid(TheGrid)
    /\ UNCHANGED <<grid, alg, sessions>>

\* the Load button of a saved grid: StorageManager.loadGrid, then syncGrids
LoadSavedGrid == SameSize /\ PutGrids(Synced(loadGrid(TheGrid, storage).grid, grid["astar"]))

AppGenerateRandomMaze ==
    /\ SameSize
    /\ Blank(TheGrid)
    /\ \E D \in generateRandomMaze(resetAlgorithmStates(TheGrid)) :
           PutGrids(Synced(D, resetAlgorithmStates(grid["astar"])))

SetRandomStartEnd ==
    /\ SameSize
    /\ \E s \in StartDraws(TheGrid) \cap Corners(TheGrid) :
        \E e \in EndDraws(TheGrid, s[1], s[2]) \cap Corners(TheGrid) :
            PutGrids(Synced(randomizeStartAndEnd(resetAlgorithmStates(TheGrid),
                                                 s[1], s[2], e[1], e[2]),
                            resetAlgorithmStates(grid["astar"])))

\* generateRandomWeights(undefined, undefined, 1): every cell draws one of
\* allowedWeights
AllDraws(G) == [Pos(G) -> AppWeights \ {1}]

AppGenerateRandomWeights ==
    /\ SameSize
    /\ \E dd \in AllDraws(TheGrid), da \in AllDraws(grid["astar"]) :
        LET D == generateRandomWeights(resetAlgorithmStates(TheGrid), dd)
            A == generateRandomWeights(resetAlgorithmStates(grid["astar"]), da)
        IN  WithinAppBounds(D) /\ PutGrids(Synced(D, A))

GenerateRandomEnvironment ==
    /\ SameSize
    /\ Blank(TheGrid)
    /\ \E M \in generateRandomMaze(resetAlgorithmStates(TheGrid)) :
         \E s \in StartDraws(M) \cap Corners(M) :
           \E e \in EndDraws(M, s[1], s[2]) \cap Corners(M) :
             \E dd \in AllDraws(M) :
               LET D == generateRandomWeights(
                            randomizeStartAndEnd(M, s[1], s[2], e[1], e[2]), dd)
               IN  WithinAppBounds(D)
                   /\ PutGrids(Synced(D, resetAlgorithmStates(grid["astar"])))

NextApp ==
    \/ ClickOnDijkstraGrid
    \/ ClickOnAStarGrid
    \/ ClearGrids
    \/ ResizeGrids
    \/ ConfirmSaveGrid
    \/ LoadSavedGrid
    \/ AppGenerateRandomMaze
    \/ SetRandomStartEnd
    \/ AppGenerateRandomWeights
    \/ GenerateRandomEnvironment

SpecApp == InitApp /\ [][NextApp]_vars

(***************************************************************************)
(* C31: after every completed application action that edits the layout    *)
(* the Dijkstra grid and the A* grid have the same role, wall flag and     *)
(* weight on every cell, and their Start and End references are at the     *)
(* same positions.                                                         *)
(***************************************************************************)
SameRef(r1, r2) == (r1 = NoRef /\ r2 = NoRef) \/ (r1 # NoRef /\ r2 # NoRef /\ RefPos(r1) = RefPos(r2))

C31_GridsInSync ==
    LET D == grid["dijkstra"]
        A == grid["astar"]
    IN  /\ Pos(D) = Pos(A)
        /\ \A p \in Pos(D) \cap Pos(A) :
               /\ D.nodes[p].isStart = A.nodes[p].isStart
               /\ D.nodes[p].isEnd = A.nodes[p].isEnd
               /\ D.nodes[p].isWall = A.nodes[p].isWall
               /\ D.nodes[p].weight = A.nodes[p].weight
        /\ SameRef(D.startNode, A.startNode)
        /\ SameRef(D.endNode, A.endNode)

====
